---- MODULE Spec2Model ----
(***************************************************************************)
(* A model of the UCP prototype's checkout resource: the in-memory store   *)
(* (src/lib/ucp/checkoutStore.ts), the Next.js route handlers over it, the *)
(* MCP gateway's tools and the fetch-based MCP client with its fallback.   *)
(*                                                                         *)
(* JSON numbers are represented in units of one half, so that a            *)
(* non-integer quantity can be written: 2 is the number 1, 4 is the number *)
(* 2, 1 is the number 0.5, 0 is 0 and -2 is -1.                            *)
(***************************************************************************)
EXTENDS Integers, Sequences, FiniteSets, TLC

\* ------------------------------------------------------------------ bounds
\* The wall clock (Date) is read at values 0..MaxTime.
MaxTime == 1
\* The concurrent scenario runs up to NumHandlers request handlers.
NumHandlers == 3
\* The fetch-by-fetch scenario runs up to NumWaiters request handlers.
NumWaiters == 2

\* ------------------------------------------------------------- value sets
\* The strings randomId can return.
Ids == {"co_1", "co_2"}
\* The ids a request can name: those, and one that randomId never returns.
ReqIds == Ids \cup {"co_none"}

\* type CartLine = { productId: string; quantity: number }
CartLine(p, q) == [productId |-> p, quantity |-> q]
\* The line lists a request carries: none, a cart of two well-formed lines
\* (quantities 1 and 2) in either order, and a line of quantity 0.
LineLists ==
  {<<>>,
   <<CartLine("p1", 2), CartLine("p2", 4)>>,
   <<CartLine("p2", 4), CartLine("p1", 2)>>,
   <<CartLine("p1", 0)>>}

\* What `(await req.json()) as { lines?: CartLine[] }` can give a route: a
\* body that is not JSON, one without lines, one whose lines is no array,
\* and one whose lines is an array.
Bodies ==
  {[kind |-> k, lines |-> <<>>] : k \in {"badjson", "missing", "nonarray"}}
    \cup {[kind |-> "array", lines |-> L] : L \in LineLists}

Statuses == {"CREATED", "COMPLETED", "CANCELED"}

\* `null`, the store's sentinel for an absent checkout.
Null == [null |-> TRUE]

Handlers == 1..NumHandlers

VARIABLES
  store,    \* Map<string, Checkout>: a function from the stored ids to checkouts
  now,      \* the wall clock that nowIso() reads
  resp,     \* the HTTP response of the last request the app handled
  pc,       \* concurrent scenario: where each request handler stands
  hreq,     \* concurrent scenario: the request each handler serves
  hresp,    \* concurrent scenario: what each handler answered
  writes    \* concurrent scenario: how many steps changed the store

vars == <<store, now, resp, pc, hreq, hresp, writes>>
conc == <<pc, hreq, hresp, writes>>

\* ------------------------------------------------------- the Resource Store
\* store.set(id, checkout)
Put(s, id, c) == [x \in DOMAIN s \cup {id} |-> IF x = id THEN c ELSE s[x]]

\* createCheckout that builds and returns the checkout and never stores it.
createCheckout_NoInsert(s, lines, id, t) ==
  [store |-> s,
   ret |-> [id |-> id, status |-> "CREATED", lines |-> lines,
            createdAt |-> t, updatedAt |-> t]]

\* createCheckout(lines), with id the value randomId() returned and t the
\* value nowIso() returned; `ret` is the checkout returned.
createCheckout(s, lines, id, t) ==
  LET checkout == [id |-> id, status |-> "CREATED", lines |-> lines,
                   createdAt |-> t, updatedAt |-> t]
  IN [store |-> Put(s, id, checkout), ret |-> checkout]

\* getCheckout(id): store.get(id) ?? null
getCheckout(s, id) == IF id \in DOMAIN s THEN s[id] ELSE Null

\* updateCheckout without the `status !== "CREATED"` return.
updateCheckout_NoGuard(s, id, lines, t) ==
  IF id \notin DOMAIN s THEN [store |-> s, ret |-> Null]
  ELSE [store |-> Put(s, id, [s[id] EXCEPT !.lines = lines, !.updatedAt = t]),
        ret |-> [s[id] EXCEPT !.lines = lines, !.updatedAt = t]]

\* updateCheckout that stores a new checkout for an id it does not find.
updateCheckout_Upsert(s, id, lines, t) ==
  IF id \notin DOMAIN s THEN createCheckout(s, lines, id, t)
  ELSE IF s[id].status # "CREATED" THEN [store |-> s, ret |-> s[id]]
  ELSE [store |-> Put(s, id, [s[id] EXCEPT !.lines = lines, !.updatedAt = t]),
        ret |-> [s[id] EXCEPT !.lines = lines, !.updatedAt = t]]

\* updateCheckout that adds the lines to those the checkout has.
updateCheckout_Append(s, id, lines, t) ==
  IF id \notin DOMAIN s THEN [store |-> s, ret |-> Null]
  ELSE IF s[id].status # "CREATED" THEN [store |-> s, ret |-> s[id]]
  ELSE [store |-> Put(s, id, [s[id] EXCEPT !.lines = @ \o lines, !.updatedAt = t]),
        ret |-> [s[id] EXCEPT !.lines = @ \o lines, !.updatedAt = t]]

\* updateCheckout(id, lines)
updateCheckout(s, id, lines, t) ==
  IF id \notin DOMAIN s THEN [store |-> s, ret |-> Null]
  ELSE IF s[id].status # "CREATED" THEN [store |-> s, ret |-> s[id]]
  ELSE LET updated == [s[id] EXCEPT !.lines = lines, !.updatedAt = t]
       IN [store |-> Put(s, id, updated), ret |-> updated]

\* completeCheckout without the `status !== "CREATED"` return.
completeCheckout_NoGuard(s, id, t) ==
  IF id \notin DOMAIN s THEN [store |-> s, ret |-> Null]
  ELSE [store |-> Put(s, id, [s[id] EXCEPT !.status = "COMPLETED", !.updatedAt = t]),
        ret |-> [s[id] EXCEPT !.status = "COMPLETED", !.updatedAt = t]]

\* completeCheckout that stamps a new updatedAt on a terminal checkout.
completeCheckout_Restamp(s, id, t) ==
  IF id \notin DOMAIN s THEN [store |-> s, ret |-> Null]
  ELSE IF s[id].status # "CREATED"
  THEN [store |-> Put(s, id, [s[id] EXCEPT !.updatedAt = t]),
        ret |-> [s[id] EXCEPT !.updatedAt = t]]
  ELSE [store |-> Put(s, id, [s[id] EXCEPT !.status = "COMPLETED", !.updatedAt = t]),
        ret |-> [s[id] EXCEPT !.status = "COMPLETED", !.updatedAt = t]]

\* completeCheckout that returns null for a checkout that is not CREATED.
completeCheckout_NullOnTerminal(s, id, t) ==
  IF id \notin DOMAIN s THEN [store |-> s, ret |-> Null]
  ELSE IF s[id].status # "CREATED" THEN [store |-> s, ret |-> Null]
  ELSE [store |-> Put(s, id, [s[id] EXCEPT !.status = "COMPLETED", !.updatedAt = t]),
        ret |-> [s[id] EXCEPT !.status = "COMPLETED", !.updatedAt = t]]

\* completeCheckout(id)
completeCheckout(s, id, t) ==
  IF id \notin DOMAIN s THEN [store |-> s, ret |-> Null]
  ELSE IF s[id].status # "CREATED" THEN [store |-> s, ret |-> s[id]]
  ELSE LET updated == [s[id] EXCEPT !.status = "COMPLETED", !.updatedAt = t]
       IN [store |-> Put(s, id, updated), ret |-> updated]

\* cancelCheckout that returns a terminal checkout with a fresh updatedAt.
cancelCheckout_Touch(s, id, t) ==
  IF id \notin DOMAIN s THEN [store |-> s, ret |-> Null]
  ELSE IF s[id].status # "CREATED"
  THEN [store |-> Put(s, id, [s[id] EXCEPT !.updatedAt = t]),
        ret |-> [s[id] EXCEPT !.updatedAt = t]]
  ELSE [store |-> Put(s, id, [s[id] EXCEPT !.status = "CANCELED", !.updatedAt = t]),
        ret |-> [s[id] EXCEPT !.status = "CANCELED", !.updatedAt = t]]

\* cancelCheckout without the `status !== "CREATED"` return.
cancelCheckout_NoGuard(s, id, t) ==
  IF id \notin DOMAIN s THEN [store |-> s, ret |-> Null]
  ELSE [store |-> Put(s, id, [s[id] EXCEPT !.status = "CANCELED", !.updatedAt = t]),
        ret |-> [s[id] EXCEPT !.status = "CANCELED", !.updatedAt = t]]

\* cancelCheckout(id)
cancelCheckout(s, id, t) ==
  IF id \notin DOMAIN s THEN [store |-> s, ret |-> Null]
  ELSE IF s[id].status # "CREATED" THEN [store |-> s, ret |-> s[id]]
  ELSE LET updated == [s[id] EXCEPT !.status = "CANCELED", !.updatedAt = t]
       IN [store |-> Put(s, id, updated), ret |-> updated]

\* --------------------------------------------------------- the Resource API
\* Each route is a function of the store, the request and the values the
\* handler draws (randomId, nowIso) to the store it leaves and the HTTP
\* status and body it answers.
ErrLines == [error |-> "lines is required and must be a non-empty array"]
ErrJson == [error |-> "invalid json"]
ErrNotFound == [error |-> "not found"]
HintMissing == "checkout not in store (create and complete must hit the same app)"
HintStatus(st) == <<"checkout exists but status is", st>>
\* The hint of the complete route's 404, from what getCheckout then finds.
Hint(existing) ==
  IF existing # Null THEN HintStatus(existing.status) ELSE <<HintMissing>>

\* The check without `lines.length === 0`.
LinesRejected_KindOnly(body) == body.kind # "array"

\* `!Array.isArray(lines) || lines.length === 0`, with lines = body.lines ?? []
LinesRejected(body) == body.kind # "array" \/ Len(body.lines) = 0

\* `NextResponse.json(checkout, { status: 201 })`
Created(r) == [store |-> r.store, code |-> 201, body |-> r.ret]

\* `if (!checkout) return 404 "not found"`, else 200 with the checkout
Found(r) ==
  IF r.ret = Null THEN [store |-> r.store, code |-> 404, body |-> ErrNotFound]
  ELSE [store |-> r.store, code |-> 200, body |-> r.ret]

\* POST /api/ucp/checkout
PostCheckout(s, body, id, t) ==
  IF body.kind = "badjson" THEN [store |-> s, code |-> 400, body |-> ErrJson]
  ELSE IF LinesRejected(body) THEN [store |-> s, code |-> 400, body |-> ErrLines]
  ELSE Created(createCheckout(s, body.lines, id, t))

\* GET /api/ucp/checkout/[id]
GetCheckout(s, id) == Found([store |-> s, ret |-> getCheckout(s, id)])

\* PATCH that looks the id up before it checks the body.
PatchCheckout_LookupFirst(s, id, body, t) ==
  IF id \notin DOMAIN s THEN [store |-> s, code |-> 404, body |-> ErrNotFound]
  ELSE IF body.kind = "badjson" THEN [store |-> s, code |-> 400, body |-> ErrJson]
  ELSE IF LinesRejected(body) THEN [store |-> s, code |-> 400, body |-> ErrLines]
  ELSE Found(updateCheckout(s, id, body.lines, t))

\* PATCH /api/ucp/checkout/[id]
PatchCheckout(s, id, body, t) ==
  IF body.kind = "badjson" THEN [store |-> s, code |-> 400, body |-> ErrJson]
  ELSE IF LinesRejected(body) THEN [store |-> s, code |-> 400, body |-> ErrLines]
  ELSE Found(updateCheckout(s, id, body.lines, t))

\* POST /api/ucp/checkout/[id]/complete
CompleteAnswer(r, id) ==
  IF r.ret = Null
  THEN [store |-> r.store, code |-> 404,
        body |-> [error |-> "not found", hint |-> Hint(getCheckout(r.store, id))]]
  ELSE [store |-> r.store, code |-> 200, body |-> r.ret]

ErrMissingId == [error |-> "missing checkout id"]

\* `if (!id) return 400`, then completeCheckout and the answer
PostComplete(s, id, t) ==
  IF id = "" THEN [store |-> s, code |-> 400, body |-> ErrMissingId]
  ELSE CompleteAnswer(completeCheckout(s, id, t), id)

\* POST /api/ucp/checkout/[id]/cancel
PostCancel(s, id, t) == Found(cancelCheckout(s, id, t))

\* -------------------------------------------------------- the MCP gateway
UCP_PROFILE == "ucp.checkout.v1"

\* { item: { id }, quantity }
LineItem(p, q) == [item |-> [id |-> p], quantity |-> q]

\* MetaShape: _meta.ucp.profile is z.string().min(1)
MetaShape(args) == args.meta /\ args.profile # ""

\* LineItem without the constraints on quantity.
LineItemOk_AnyQuantity(li) == li.item.id # ""

\* LineItem: item.id is z.string().min(1), quantity z.number().int().positive()
LineItemOk(li) == li.item.id # "" /\ li.quantity % 2 = 0 /\ li.quantity > 0

\* z.array(LineItem).min(1)
LineItemsOk(items) == Len(items) >= 1 /\ \A i \in DOMAIN items : LineItemOk(items[i])

\* CreateCheckoutParams
CreateCheckoutParams(args) == MetaShape(args) /\ LineItemsOk(args.line_items)

\* IdParams
IdParams(args) == MetaShape(args) /\ args.id # ""

\* UpdateCheckoutParams
UpdateCheckoutParams(args) ==
  MetaShape(args) /\ args.id # "" /\ LineItemsOk(args.line_items)

\* The schema the SDK validates a tool's arguments against before it runs
\* the tool's handler.
ParamsOk(name, args) ==
  CASE name = "create_checkout" -> CreateCheckoutParams(args)
    [] name = "update_checkout" -> UpdateCheckoutParams(args)
    [] OTHER -> IdParams(args)

\* toLines that maps the items in reverse order.
toLines_Reversed(items) ==
  [i \in DOMAIN items |->
     CartLine(items[Len(items) + 1 - i].item.id, items[Len(items) + 1 - i].quantity)]

\* toLines(line_items)
toLines(items) ==
  [i \in DOMAIN items |-> CartLine(items[i].item.id, items[i].quantity)]

\* The request a tool's handler sends to UCP_BASE_URL, as the app answers it.
Upstream(s, name, args, rid, t) ==
  CASE name = "create_checkout" ->
         PostCheckout(s, [kind |-> "array", lines |-> toLines(args.line_items)], rid, t)
    [] name = "get_checkout" -> GetCheckout(s, args.id)
    [] name = "update_checkout" ->
         PatchCheckout(s, args.id, [kind |-> "array", lines |-> toLines(args.line_items)], t)
    [] name = "complete_checkout" -> PostComplete(s, args.id, t)
    [] name = "cancel_checkout" -> PostCancel(s, args.id, t)

\* res.ok
HttpOk(code) == code >= 200 /\ code <= 299

\* assertOk and the handler's return, given the app's answer.
ToolResult(r) ==
  [store |-> r.store, sent |-> TRUE, isError |-> ~HttpOk(r.code),
   code |-> r.code, body |-> r.body]

\* A tools/call on the gateway: arguments that fail the schema never reach
\* the handler; the handler sends one request upstream, throws on a non-2xx
\* answer (assertOk) and otherwise returns { checkout } as text.
ToolCall(s, name, args, rid, t) ==
  IF ~ParamsOk(name, args)
  THEN [store |-> s, sent |-> FALSE, isError |-> TRUE, code |-> 0, body |-> Null]
  ELSE ToolResult(Upstream(s, name, args, rid, t))

\* --------------------------------------------- the binding-selecting client
\* How the client's two fetches turn out.
\* The initialize does not give a session: fetch throws ("down"), the answer
\* is not 2xx, is a JSON-RPC error, is not JSON, or has no mcp-session-id.
InitFailures == {"down", "init_http", "init_rpc", "init_notjson", "no_session"}
\* The tools/call is not run: fetch throws before the gateway has it, or
\* the gateway answers it not 2xx or with a JSON-RPC error.
CallRefusals == {"call_down", "call_http", "call_rpc"}
\* The tools/call is run and the client gets no checkout from it: the answer
\* never arrives ("lost"), or it has no text content, a text that is not
\* JSON, or a JSON text without `checkout`.
CallLosses == {"lost", "no_text", "bad_text", "no_checkout"}
\* "up": both fetches are answered with what the gateway's tool returns.
Nets == InitFailures \cup CallRefusals \cup CallLosses \cup {"up"}

\* lines.map((l) => ({ item: { id: l.productId }, quantity: l.quantity }))
toLineItems(lines) ==
  [i \in DOMAIN lines |-> LineItem(lines[i].productId, lines[i].quantity)]

\* What the client makes of the tools/call: it throws when no answer comes,
\* on a text that holds no checkout, and on a tool error, whose text is the
\* error's message and no JSON.
Parsed(r, net) ==
  IF net \in CallLosses \/ r.isError
  THEN [store |-> r.store, ok |-> FALSE, checkout |-> Null, posts |-> 2]
  ELSE [store |-> r.store, ok |-> TRUE, checkout |-> r.body, posts |-> 2]

\* initSession, a tools/call and parseCheckoutFromToolResult: `ok` is false
\* when any of them throws, `posts` counts the mcpPost fetches made.
ViaMcp(s, name, args, net, rid, t) ==
  IF net \in InitFailures
  THEN [store |-> s, ok |-> FALSE, checkout |-> Null, posts |-> 1]
  ELSE IF net \in CallRefusals
  THEN [store |-> s, ok |-> FALSE, checkout |-> Null, posts |-> 2]
  ELSE Parsed(ToolCall(s, name, args, rid, t), net)

\* createCheckoutViaMcp(lines)
createCheckoutViaMcp(s, lines, net, rid, t) ==
  ViaMcp(s, "create_checkout",
         [meta |-> TRUE, profile |-> UCP_PROFILE, id |-> "",
          line_items |-> toLineItems(lines)], net, rid, t)

\* completeCheckoutViaMcp(id)
completeCheckoutViaMcp(s, id, net, t) ==
  ViaMcp(s, "complete_checkout",
         [meta |-> TRUE, profile |-> UCP_PROFILE, id |-> id, line_items |-> <<>>],
         net, id, t)

\* The catch that answers the gateway's failure instead of falling back.
CreateOrFallBack_Surface(m, lines, rid2, t) ==
  IF m.ok
  THEN [store |-> m.store, code |-> 201, body |-> m.checkout,
        posts |-> m.posts, fallback |-> FALSE]
  ELSE [store |-> m.store, code |-> 502, body |-> [error |-> "gateway"],
        posts |-> m.posts, fallback |-> FALSE]

\* try { createCheckoutViaMcp } catch { createCheckout }, both answered 201
CreateOrFallBack(m, lines, rid2, t) ==
  IF m.ok
  THEN [store |-> m.store, code |-> 201, body |-> m.checkout,
        posts |-> m.posts, fallback |-> FALSE]
  ELSE [store |-> createCheckout(m.store, lines, rid2, t).store, code |-> 201,
        body |-> createCheckout(m.store, lines, rid2, t).ret,
        posts |-> m.posts, fallback |-> TRUE]

\* The route without its check of lines.
PostCheckoutViaMcp_NoCheck(s, body, net, rid, rid2, t) ==
  IF body.kind = "badjson"
  THEN [store |-> s, code |-> 400, body |-> ErrJson, posts |-> 0, fallback |-> FALSE]
  ELSE CreateOrFallBack(createCheckoutViaMcp(s, body.lines, net, rid, t),
                        body.lines, rid2, t)

\* POST /api/ucp/checkout-via-mcp; rid is the id the gateway's create draws,
\* rid2 the id the fallback draws.
PostCheckoutViaMcp(s, body, net, rid, rid2, t) ==
  IF body.kind = "badjson"
  THEN [store |-> s, code |-> 400, body |-> ErrJson, posts |-> 0, fallback |-> FALSE]
  ELSE IF LinesRejected(body)
  THEN [store |-> s, code |-> 400, body |-> ErrLines, posts |-> 0, fallback |-> FALSE]
  ELSE CreateOrFallBack(createCheckoutViaMcp(s, body.lines, net, rid, t),
                        body.lines, rid2, t)

ErrNotFoundMcp == [error |-> "not found. If using MCP, ensure UCP_BASE_URL points to this app"]

\* The catch branch of the complete-via-MCP route
FellBack(r, posts) ==
  IF r.ret = Null
  THEN [store |-> r.store, code |-> 404, body |-> ErrNotFoundMcp,
        posts |-> posts, fallback |-> TRUE]
  ELSE [store |-> r.store, code |-> 200, body |-> r.ret,
        posts |-> posts, fallback |-> TRUE]

\* The catch that answers the gateway's failure instead of falling back.
CompleteOrFallBack_Surface(m, id, t) ==
  IF m.ok
  THEN [store |-> m.store, code |-> 200, body |-> m.checkout,
        posts |-> m.posts, fallback |-> FALSE]
  ELSE [store |-> m.store, code |-> 502, body |-> [error |-> "gateway"],
        posts |-> m.posts, fallback |-> FALSE]

\* POST of the complete-via-MCP route: try { completeCheckoutViaMcp } catch
\* { completeCheckout }
CompleteOrFallBack(m, id, t) ==
  IF m.ok
  THEN [store |-> m.store, code |-> 200, body |-> m.checkout,
        posts |-> m.posts, fallback |-> FALSE]
  ELSE FellBack(completeCheckout(m.store, id, t), m.posts)

PostCompleteViaMcp(s, id, net, t) ==
  CompleteOrFallBack(completeCheckoutViaMcp(s, id, net, t), id, t)

\* ------------------------------------------------------------------ inputs
\* The line_items a tools/call carries: the request line lists as the
\* client translates them, and one list per kind of item the schema refuses
\* (an empty id, the quantities -1 and 0.5).
ItemLists ==
  {toLineItems(L) : L \in LineLists}
    \cup {<<LineItem("", 2)>>, <<LineItem("p1", -2)>>, <<LineItem("p1", 1)>>}

ToolNames ==
  {"create_checkout", "get_checkout", "update_checkout", "complete_checkout",
   "cancel_checkout"}

\* _meta as a call can carry it: the advertised profile, another profile,
\* an empty profile, and no _meta at all.
Metas ==
  {[meta |-> TRUE, profile |-> p] : p \in {UCP_PROFILE, "acme.v9", ""}}
    \cup {[meta |-> FALSE, profile |-> ""]}

Args(m, id, items) ==
  [meta |-> m.meta, profile |-> m.profile, id |-> id, line_items |-> items]

\* The arguments tried for each tool: every id and every line_items under
\* the advertised profile, and every _meta with one id and well-formed
\* line_items.
ToolArgs(name) ==
  LET good == [meta |-> TRUE, profile |-> UCP_PROFILE]
      items == <<LineItem("p1", 2)>>
      ids == IF name = "create_checkout" THEN {""} ELSE ReqIds
      lists == IF name \in {"create_checkout", "update_checkout"}
               THEN ItemLists ELSE {<<>>}
  IN {Args(good, id, it) : id \in ids, it \in lists}
       \cup {Args(m, IF name = "create_checkout" THEN "" ELSE "co_1", items) : m \in Metas}

\* ------------------------------------------------------------------ actions
\* The answer of the app to a request: the operation, the id it named, the
\* HTTP status and body, the route ("rest": the Resource API, "mcp": the
\* binding-selecting routes), the mcpPost fetches the handler made and
\* whether it fell back to the store.
Response(op, id, route, r, posts, fallback) ==
  [op |-> op, id |-> id, code |-> r.code, body |-> r.body, route |-> route,
   posts |-> posts, fallback |-> fallback]

NoRequest == [op |-> "none", id |-> ""]

Init ==
  /\ store = <<>>
  /\ now = 0
  /\ resp = [op |-> "none", id |-> "", code |-> 0, body |-> Null, route |-> "none",
             posts |-> 0, fallback |-> FALSE]
  /\ pc = [h \in Handlers |-> "off"]
  /\ hreq = [h \in Handlers |-> NoRequest]
  /\ hresp = [h \in Handlers |-> Null]
  /\ writes = 0

\* Time passes between two reads of the clock.
Tick ==
  /\ now < MaxTime
  /\ now' = now + 1
  /\ UNCHANGED <<store, resp, conc>>

\* The id a create answers with.
CreatedId(r) == IF r.code = 201 THEN r.body.id ELSE ""

RestCreate ==
  \E body \in Bodies, rid \in Ids :
    \E r \in {PostCheckout(store, body, rid, now)} :
       /\ store' = r.store
       /\ resp' = Response("create", CreatedId(r), "rest", r, 0, FALSE)
       /\ UNCHANGED <<now, conc>>

RestGet ==
  \E id \in ReqIds :
    \E r \in {GetCheckout(store, id)} :
       /\ store' = r.store
       /\ resp' = Response("get", id, "rest", r, 0, FALSE)
       /\ UNCHANGED <<now, conc>>

RestPatch ==
  \E id \in ReqIds, body \in Bodies :
    \E r \in {PatchCheckout(store, id, body, now)} :
       /\ store' = r.store
       /\ resp' = Response("update", id, "rest", r, 0, FALSE)
       /\ UNCHANGED <<now, conc>>

RestComplete ==
  \E id \in ReqIds :
    \E r \in {PostComplete(store, id, now)} :
       /\ store' = r.store
       /\ resp' = Response("complete", id, "rest", r, 0, FALSE)
       /\ UNCHANGED <<now, conc>>

RestCancel ==
  \E id \in ReqIds :
    \E r \in {PostCancel(store, id, now)} :
       /\ store' = r.store
       /\ resp' = Response("cancel", id, "rest", r, 0, FALSE)
       /\ UNCHANGED <<now, conc>>

\* The operation a tool maps to.
ToolOp(name) ==
  CASE name = "create_checkout" -> "create"
    [] name = "get_checkout" -> "get"
    [] name = "update_checkout" -> "update"
    [] name = "complete_checkout" -> "complete"
    [] name = "cancel_checkout" -> "cancel"

\* A tools/call an agent makes on the gateway. The app answers the request
\* the tool sends upstream; a call the schema refuses sends none.
GatewayTool ==
  \E name \in ToolNames :
    \E args \in ToolArgs(name), rid \in IF name = "create_checkout" THEN Ids ELSE {""} :
      \E r \in {ToolCall(store, name, args, rid, now)} :
         /\ store' = r.store
         /\ resp' = IF r.sent
                    THEN Response(ToolOp(name),
                                  IF name = "create_checkout" THEN CreatedId(r) ELSE args.id,
                                  "rest", r, 0, FALSE)
                    ELSE resp
         /\ UNCHANGED <<now, conc>>

\* rid is drawn by the create the gateway's tool causes, rid2 by the
\* fallback; a handler that returns before either draws none.
McpCreate ==
  \E body \in Bodies, net \in Nets :
    \E rid \in IF body.kind = "badjson" \/ LinesRejected(body)
                    \/ net \in InitFailures \cup CallRefusals
               THEN {""} ELSE Ids,
       rid2 \in IF body.kind = "badjson" \/ LinesRejected(body) THEN {""} ELSE Ids :
      \E r \in {PostCheckoutViaMcp(store, body, net, rid, rid2, now)} :
         /\ store' = r.store
         /\ resp' = Response("create", CreatedId(r), "mcp", r, r.posts, r.fallback)
         /\ UNCHANGED <<now, conc>>

McpComplete ==
  \E id \in ReqIds, net \in Nets :
    \E r \in {PostCompleteViaMcp(store, id, net, now)} :
       /\ store' = r.store
       /\ resp' = Response("complete", id, "mcp", r, r.posts, r.fallback)
       /\ UNCHANGED <<now, conc>>

Next ==
  \/ Tick
  \/ RestCreate
  \/ RestGet
  \/ RestPatch
  \/ RestComplete
  \/ RestCancel
  \/ GatewayTool
  \/ McpCreate
  \/ McpComplete

\* The whole system: the Resource API, the gateway's tools and the
\* binding-selecting routes, one request at a time.
Spec == Init /\ [][Next]_vars

\* The Resource API alone.
NextApi ==
  \/ Tick
  \/ RestCreate
  \/ RestGet
  \/ RestPatch
  \/ RestComplete
  \/ RestCancel

SpecApi == Init /\ [][NextApi]_vars

\* The binding-selecting routes, with the direct create and cancel.
NextClient ==
  \/ Tick
  \/ RestCreate
  \/ RestCancel
  \/ McpCreate
  \/ McpComplete

SpecClient == Init /\ [][NextClient]_vars

\* ------------------------------------------------- concurrent handlers
\* Requests to the complete and cancel routes served by one process. A
\* handler suspends once, at `await ctx.params`; what follows the await runs
\* to its return without suspending.
ConcOps == {"complete", "cancel"}

\* One freshly created checkout, and up to NumHandlers requests on its id
\* that have arrived and not started.
InitConc ==
  \E id \in Ids, L \in LineLists \ {<<>>} :
    /\ store = createCheckout(<<>>, L, id, 0).store
    /\ now = 0
    /\ resp = Response("create", id, "rest", Created(createCheckout(<<>>, L, id, 0)), 0, FALSE)
    /\ hreq \in [Handlers -> {NoRequest} \cup {[op |-> o, id |-> id] : o \in ConcOps}]
    /\ \E h \in Handlers : hreq[h] # NoRequest
    /\ pc = [h \in Handlers |-> IF hreq[h] = NoRequest THEN "off" ELSE "start"]
    /\ hresp = [h \in Handlers |-> Null]
    /\ writes = 0

\* const { id } = await ctx.params
AwaitParams(h) ==
  /\ pc[h] = "start"
  /\ pc' = [pc EXCEPT ![h] = "resumed"]
  /\ UNCHANGED <<store, now, resp, hreq, hresp, writes>>

\* The route a request is for.
Route(s, req, t) ==
  IF req.op = "complete" THEN PostComplete(s, req.id, t) ELSE PostCancel(s, req.id, t)

\* The rest of the handler: the store call and the response.
Answer(h) ==
  /\ pc[h] = "resumed"
  /\ \E r \in {Route(store, hreq[h], now)} :
       /\ store' = r.store
       /\ resp' = Response(hreq[h].op, hreq[h].id, "rest", r, 0, FALSE)
       /\ hresp' = [hresp EXCEPT ![h] = [code |-> r.code, body |-> r.body]]
       /\ writes' = IF r.store # store THEN writes + 1 ELSE writes
  /\ pc' = [pc EXCEPT ![h] = "done"]
  /\ UNCHANGED <<now, hreq>>

NextConc ==
  \/ Tick
  \/ \E h \in Handlers : AwaitParams(h)
  \/ \E h \in Handlers : Answer(h)

SpecConc == InitConc /\ [][NextConc]_vars

\* ------------------------------------- concurrent handlers, four routes
\* Requests to the get, update, complete and cancel routes of one id, served
\* by one process. The PATCH handler suspends twice, at `await ctx.params`
\* and at `await req.json()`, the others once.
FreshLines == <<CartLine("p1", 2), CartLine("p2", 4)>>
Fresh(id) == createCheckout(<<>>, FreshLines, id, 0)

\* The requests on one id: a get, a complete, a cancel, and a PATCH with
\* each line list other than the one the checkout was created with.
LinRequests(id) ==
  {[op |-> o, id |-> id, lines |-> <<>>] : o \in {"get", "complete", "cancel"}}
    \cup {[op |-> "update", id |-> id, lines |-> L] : L \in LineLists \ {FreshLines}}

InitLin ==
  \E id \in Ids :
    /\ store = Fresh(id).store
    /\ now = 0
    /\ resp = Response("create", id, "rest", Created(Fresh(id)), 0, FALSE)
    /\ hreq \in [Handlers -> {NoRequest} \cup LinRequests(id)]
    /\ \E h \in Handlers : hreq[h] # NoRequest
    /\ pc = [h \in Handlers |-> IF hreq[h] = NoRequest THEN "off" ELSE "start"]
    /\ hresp = [h \in Handlers |-> Null]
    /\ writes = 0

\* const body = await req.json()
AwaitJson(h) ==
  /\ pc[h] = "resumed"
  /\ hreq[h].op = "update"
  /\ pc' = [pc EXCEPT ![h] = "parsed"]
  /\ UNCHANGED <<store, now, resp, hreq, hresp, writes>>

\* The route a request is for, of the four.
RouteLin(s, req, t) ==
  CASE req.op = "get" -> GetCheckout(s, req.id)
    [] req.op = "update" ->
         PatchCheckout(s, req.id, [kind |-> "array", lines |-> req.lines], t)
    [] OTHER -> Route(s, req, t)

\* A handler that answers what the route answers and leaves the store as
\* it found it.
Serve_LostWrite(h) ==
  /\ pc[h] = IF hreq[h].op = "update" THEN "parsed" ELSE "resumed"
  /\ \E r \in {RouteLin(store, hreq[h], now)} :
       /\ store' = store
       /\ resp' = Response(hreq[h].op, hreq[h].id, "rest", r, 0, FALSE)
       /\ hresp' = [hresp EXCEPT ![h] = [code |-> r.code, body |-> r.body]]
       /\ writes' = writes
  /\ pc' = [pc EXCEPT ![h] = "done"]
  /\ UNCHANGED <<now, hreq>>

\* The rest of a handler after its last await: the store call and the
\* response, without suspending.
Serve(h) ==
  /\ pc[h] = IF hreq[h].op = "update" THEN "parsed" ELSE "resumed"
  /\ \E r \in {RouteLin(store, hreq[h], now)} :
       /\ store' = r.store
       /\ resp' = Response(hreq[h].op, hreq[h].id, "rest", r, 0, FALSE)
       /\ hresp' = [hresp EXCEPT ![h] = [code |-> r.code, body |-> r.body]]
       /\ writes' = IF r.store # store THEN writes + 1 ELSE writes
  /\ pc' = [pc EXCEPT ![h] = "done"]
  /\ UNCHANGED <<now, hreq>>

NextLin ==
  \/ Tick
  \/ \E h \in Handlers : AwaitParams(h)
  \/ \E h \in Handlers : AwaitJson(h)
  \/ \E h \in Handlers : Serve(h)

SpecLin == InitLin /\ [][NextLin]_vars

\* ------------------------- the binding-selecting routes, fetch by fetch
\* Requests to the two binding-selecting routes, each followed through its
\* awaits: the fetch of the initialize, the fetch of the tools/call, and the
\* answer of each, which the gateway gives when it gives it.
Waiters == 1..NumWaiters

\* A create with lines and with none, a complete of the stored id and of an
\* id not stored.
WaitRequests ==
  {[op |-> "create", id |-> "", lines |-> L] : L \in {FreshLines, <<>>}}
    \cup {[op |-> "complete", id |-> i, lines |-> <<>>] : i \in {"co_1", "co_none"}}

InitWait ==
  /\ store = Fresh("co_1").store
  /\ now = 0
  /\ resp = Response("create", "co_1", "rest", Created(Fresh("co_1")), 0, FALSE)
  /\ hreq \in [Handlers -> {NoRequest} \cup WaitRequests]
  /\ \A h \in Handlers \ Waiters : hreq[h] = NoRequest
  /\ \E h \in Waiters : hreq[h] # NoRequest
  /\ pc = [h \in Handlers |-> IF hreq[h] = NoRequest THEN "off" ELSE "start"]
  /\ hresp = [h \in Handlers |-> Null]
  /\ writes = 0

\* The tool and the arguments of the tools/call a request leads to.
McpTool(req) == IF req.op = "create" THEN "create_checkout" ELSE "complete_checkout"
McpArgs(req) ==
  [meta |-> TRUE, profile |-> UCP_PROFILE, id |-> req.id,
   line_items |-> toLineItems(req.lines)]

\* The handler's return, recorded.
Returned(h, r) ==
  /\ store' = r.store
  /\ resp' = Response(hreq[h].op, IF hreq[h].op = "create" THEN CreatedId(r) ELSE hreq[h].id,
                      "mcp", r, r.posts, r.fallback)
  /\ hresp' = [hresp EXCEPT ![h] = [code |-> r.code, body |-> r.body]]
  /\ writes' = IF r.store # store THEN writes + 1 ELSE writes
  /\ pc' = [pc EXCEPT ![h] = "done"]
  /\ UNCHANGED <<now, hreq>>

\* The route when the tool did not run: net is a failure of the initialize
\* or a refusal of the tools/call.
Unserved(req, net, rid2) ==
  IF req.op = "create"
  THEN PostCheckoutViaMcp(store, [kind |-> "array", lines |-> req.lines], net, "", rid2, now)
  ELSE PostCompleteViaMcp(store, req.id, net, now)

\* The route from the answer of a tools/call that ran: m is what the client
\* made of the answer.
Served(req, m, rid2) ==
  IF req.op = "create"
  THEN CreateOrFallBack(m, req.lines, rid2, now)
  ELSE CompleteOrFallBack(m, req.id, now)

\* The handler up to its first fetch: the route's awaits and its check of
\* lines, then initSession's mcpPost.
WaitStart(h) ==
  /\ pc[h] = "start"
  /\ IF hreq[h].op = "create" /\ LinesRejected([kind |-> "array", lines |-> hreq[h].lines])
     THEN \E r \in {Unserved(hreq[h], "down", "")} : Returned(h, r)
     ELSE /\ pc' = [pc EXCEPT ![h] = "init"]
          /\ UNCHANGED <<store, now, resp, hreq, hresp, writes>>

\* The fetch of the initialize settles: with a session, and the client
\* sends the tools/call, or with a failure, and the route falls back.
InitSettles(h) ==
  /\ pc[h] = "init"
  /\ \/ /\ pc' = [pc EXCEPT ![h] = "call"]
        /\ UNCHANGED <<store, now, resp, hreq, hresp, writes>>
     \/ \E net \in InitFailures, rid2 \in IF hreq[h].op = "create" THEN Ids ELSE {""} :
          \E r \in {Unserved(hreq[h], net, rid2)} : Returned(h, r)

\* The gateway runs the tool of the tools/call it received.
CallRuns(h) ==
  /\ pc[h] = "call"
  /\ \E rid \in IF hreq[h].op = "create" THEN Ids ELSE {""} :
       \E tr \in {ToolCall(store, McpTool(hreq[h]), McpArgs(hreq[h]), rid, now)} :
         /\ store' = tr.store
         /\ hresp' = [hresp EXCEPT ![h] = tr]
         /\ writes' = IF tr.store # store THEN writes + 1 ELSE writes
  /\ pc' = [pc EXCEPT ![h] = "ran"]
  /\ UNCHANGED <<now, resp, hreq>>

\* The fetch of the tools/call settles: refused before the tool ran, or
\* after the tool ran with its answer or without one the client can use.
CallSettles(h) ==
  \/ /\ pc[h] = "call"
     /\ \E net \in CallRefusals, rid2 \in IF hreq[h].op = "create" THEN Ids ELSE {""} :
          \E r \in {Unserved(hreq[h], net, rid2)} : Returned(h, r)
  \/ /\ pc[h] = "ran"
     /\ \E net \in CallLosses \cup {"up"}, rid2 \in IF hreq[h].op = "create" THEN Ids ELSE {""} :
          \E r \in {Served(hreq[h], Parsed([hresp[h] EXCEPT !.store = store], net), rid2)} :
            Returned(h, r)

NextWait ==
  \/ Tick
  \/ \E h \in Handlers : WaitStart(h)
  \/ \E h \in Handlers : InitSettles(h)
  \/ \E h \in Handlers : CallRuns(h)
  \/ \E h \in Handlers : CallSettles(h)

\* The event loop runs a handler that can run; when the gateway answers a
\* fetch, if ever, is the gateway's choice.
SpecWait ==
  InitWait /\ [][NextWait]_vars /\ \A h \in Handlers : WF_vars(WaitStart(h))

\* ------------------------------------------- the gateway, call by call
\* tools/call requests agents send to the gateway's HTTP host, each followed
\* from its arrival to the tool's return.

\* main builds the transport with { enableJsonResponse: true } and no
\* sessionIdGenerator: the transport generates no session id, so it has none.
sessionIdGenerator == Null
sessionId == Null

\* The mcp-session-id header of a request: none, or a value no initialize
\* of this gateway returned.
SessionHeaders == {"", "s_0"}

\* transport.handleRequest's check of the session of a request that is not
\* an initialize: made only by a transport that generates session ids.
validateSession(sid) ==
  sessionIdGenerator = Null \/ (sid # "" /\ sid = sessionId)

\* The tools/call requests: each tool with each of its arguments, under
\* each session header.
GwRequests ==
  UNION {{[op |-> ToolOp(name), id |-> a.id, tool |-> name, session |-> sid, args |-> a] :
            a \in ToolArgs(name), sid \in SessionHeaders} : name \in ToolNames}

InitGw ==
  /\ store = Fresh("co_1").store
  /\ now = 0
  /\ resp = Response("create", "co_1", "rest", Created(Fresh("co_1")), 0, FALSE)
  /\ hreq \in [Handlers -> {NoRequest} \cup GwRequests]
  /\ \A h \in Handlers \ Waiters : hreq[h] = NoRequest
  /\ \E h \in Waiters : hreq[h] # NoRequest
  /\ pc = [h \in Handlers |-> IF hreq[h] = NoRequest THEN "off" ELSE "start"]
  /\ hresp = [h \in Handlers |-> Null]
  /\ writes = 0

\* What the gateway answers to a tools/call: whether the tool's handler
\* sent its request upstream, whether the result is an error, and the
\* upstream status and body.
GwResult(r) == [sent |-> r.sent, isError |-> r.isError, code |-> r.code, body |-> r.body]

\* The request arrives: the transport checks the session, the server the
\* arguments against the tool's schema; then the tool's handler runs to its
\* `await fetch`.
GwReceive(h) ==
  /\ pc[h] = "start"
  /\ IF validateSession(hreq[h].session) /\ ParamsOk(hreq[h].tool, hreq[h].args)
     THEN /\ pc' = [pc EXCEPT ![h] = "upstream"]
          /\ hresp' = hresp
     ELSE /\ pc' = [pc EXCEPT ![h] = "done"]
          /\ hresp' = [hresp EXCEPT ![h] =
                         [sent |-> FALSE, isError |-> TRUE, code |-> 0, body |-> Null]]
  /\ UNCHANGED <<store, now, resp, hreq, writes>>

\* The app serves the tool's request and the tool returns.
GwUpstream(h) ==
  /\ pc[h] = "upstream"
  /\ \E rid \in IF hreq[h].tool = "create_checkout" THEN Ids ELSE {""} :
       \E r \in {ToolCall(store, hreq[h].tool, hreq[h].args, rid, now)} :
         /\ store' = r.store
         /\ resp' = Response(hreq[h].op,
                             IF hreq[h].tool = "create_checkout" THEN CreatedId(r)
                             ELSE hreq[h].id,
                             "rest", r, 0, FALSE)
         /\ hresp' = [hresp EXCEPT ![h] = GwResult(r)]
         /\ writes' = IF r.store # store THEN writes + 1 ELSE writes
  /\ pc' = [pc EXCEPT ![h] = "done"]
  /\ UNCHANGED <<now, hreq>>

NextGw ==
  \/ Tick
  \/ \E h \in Handlers : GwReceive(h)
  \/ \E h \in Handlers : GwUpstream(h)

SpecGw == InitGw /\ [][NextGw]_vars

\* ------------------------------------------------ the success envelopes
\* toUcpCheckout(rest), the stdio gateway's shape of a checkout
toUcpCheckout(rest) ==
  [id |-> rest.id, status |-> rest.status,
   line_items |-> [i \in DOMAIN rest.lines |->
                     LineItem(rest.lines[i].productId, rest.lines[i].quantity)],
   createdAt |-> rest.createdAt, updatedAt |-> rest.updatedAt]

\* The text content of a tool result about checkout c: the JSON of
\* { checkout } as the HTTP gateway writes it, of { checkout: toUcpCheckout }
\* as the stdio gateway writes it, of either checkout without the wrapper, a
\* text that is no JSON, and no text at all.
ToolTexts(c) ==
  {[kind |-> "json", value |-> v] :
     v \in {[checkout |-> c], [checkout |-> toUcpCheckout(c)], c, toUcpCheckout(c)}}
    \cup {[kind |-> "text", value |-> Null], [kind |-> "none", value |-> Null]}

\* parseCheckoutFromToolResult(result): `ok` is false when it throws.
parseCheckoutFromToolResult(text) ==
  IF text.kind = "none" THEN [ok |-> FALSE, checkout |-> Null]
  ELSE IF text.kind # "json" THEN [ok |-> FALSE, checkout |-> Null]
  ELSE IF "checkout" \notin DOMAIN text.value THEN [ok |-> FALSE, checkout |-> Null]
  ELSE [ok |-> TRUE, checkout |-> text.value.checkout]

\* The TV page: `created?.id ?? created?.checkout?.id`
checkoutId(created) ==
  IF "id" \in DOMAIN created THEN created.id
  ELSE IF "checkout" \in DOMAIN created /\ "id" \in DOMAIN created.checkout
  THEN created.checkout.id
  ELSE Null

\* The client parses the result of a tool about a stored checkout.
ClientParses ==
  \E id \in DOMAIN store :
    \E text \in ToolTexts(store[id]) :
      \E r \in {parseCheckoutFromToolResult(text)} :
        /\ resp' = [op |-> "parse", id |-> id, code |-> IF r.ok THEN 200 ELSE 0,
                    body |-> r.checkout, route |-> "mcp", posts |-> 2,
                    fallback |-> ~r.ok]
        /\ UNCHANGED <<store, now, conc>>

\* The TV page reads the id of a create response.
TvReadsId ==
  \E id \in DOMAIN store :
    \E created \in {store[id], [checkout |-> store[id]]} :
      /\ resp' = [op |-> "read_id", id |-> checkoutId(created), code |-> 200,
                  body |-> created, route |-> "tv", posts |-> 0, fallback |-> FALSE]
      /\ UNCHANGED <<store, now, conc>>

NextEnvelope ==
  \/ Tick
  \/ RestCreate
  \/ RestComplete
  \/ ClientParses
  \/ TvReadsId

SpecEnvelope == Init /\ [][NextEnvelope]_vars

\* ------------------------------------- the two gateways, fetch by fetch
\* The tools of the HTTP gateway (mcp/ucp-checkout-mcp-http.ts) and of the
\* stdio gateway (mcp/ucp-checkout-mcp.ts), each call followed from its
\* arrival through the handler's fetch to the tool's result.
Gateways == {"http", "stdio"}

\* The request a tool's handler passes to fetch: the method, the route of
\* the app the URL is for, the id in the URL and the lines of the JSON body.
ToolRequest(name, args) ==
  CASE name = "create_checkout" ->
         [method |-> "POST", route |-> "/api/ucp/checkout", id |-> "",
          lines |-> toLines(args.line_items)]
    [] name = "get_checkout" ->
         [method |-> "GET", route |-> "/api/ucp/checkout/[id]", id |-> args.id,
          lines |-> <<>>]
    [] name = "update_checkout" ->
         [method |-> "PATCH", route |-> "/api/ucp/checkout/[id]", id |-> args.id,
          lines |-> toLines(args.line_items)]
    [] name = "complete_checkout" ->
         [method |-> "POST", route |-> "/api/ucp/checkout/[id]/complete", id |-> args.id,
          lines |-> <<>>]
    [] name = "cancel_checkout" ->
         [method |-> "POST", route |-> "/api/ucp/checkout/[id]/cancel", id |-> args.id,
          lines |-> <<>>]

\* The app's handler for a request, by its route and method.
AppRoute(s, q, rid, t) ==
  CASE q.route = "/api/ucp/checkout" ->
         PostCheckout(s, [kind |-> "array", lines |-> q.lines], rid, t)
    [] q.route = "/api/ucp/checkout/[id]" /\ q.method = "GET" -> GetCheckout(s, q.id)
    [] q.route = "/api/ucp/checkout/[id]" /\ q.method = "PATCH" ->
         PatchCheckout(s, q.id, [kind |-> "array", lines |-> q.lines], t)
    [] q.route = "/api/ucp/checkout/[id]/complete" -> PostComplete(s, q.id, t)
    [] q.route = "/api/ucp/checkout/[id]/cancel" -> PostCancel(s, q.id, t)

\* How the fetch to UCP_BASE_URL turns out: the app answers; fetch rejects
\* because nothing is reachable there; what is there answers 500 with a
\* body that is no JSON.
UpstreamOutcomes == {"app", "unreachable", "http500"}
ErrText == [text |-> "Internal Server Error"]

\* The Response the handler's fetch resolves to (`thrown`: it rejects).
Fetched(s, q, out, rid, t) ==
  IF out = "unreachable"
  THEN [store |-> s, thrown |-> TRUE, code |-> 0, json |-> FALSE, body |-> Null]
  ELSE IF out = "http500"
  THEN [store |-> s, thrown |-> FALSE, code |-> 500, json |-> FALSE, body |-> ErrText]
  ELSE [store |-> AppRoute(s, q, rid, t).store, thrown |-> FALSE,
        code |-> AppRoute(s, q, rid, t).code, json |-> TRUE,
        body |-> AppRoute(s, q, rid, t).body]

\* A tool's result: isError with the thrown Error's message, or the object
\* whose JSON is the text content. The message is kept in parts: its text,
\* the HTTP status it names (0: none) and the response body it holds.
ToolError(text, status, body) ==
  [isError |-> TRUE, text |-> text, status |-> status, body |-> body, content |-> Null]
ToolSuccess(content) ==
  [isError |-> FALSE, text |-> "", status |-> 0, body |-> Null, content |-> content]

\* The HTTP gateway: assertOk(res, label), then { checkout } as text
assertOk(f, label) ==
  IF HttpOk(f.code) THEN ToolSuccess([checkout |-> f.body])
  ELSE ToolError(label, f.code, f.body)

\* The stdio gateway: rest(path, init), then { checkout: toUcpCheckout } as
\* text; data is `await res.json().catch(() => ({}))`
rest(f) ==
  LET data == IF f.json THEN f.body ELSE <<>>
  IN IF ~HttpOk(f.code)
     THEN IF "error" \in DOMAIN data THEN ToolError(data.error, 0, Null)
          ELSE ToolError("HTTP", f.code, Null)
     ELSE ToolSuccess([checkout |-> toUcpCheckout(data)])

\* What the tool of gateway gw returns from what its fetch resolved to.
Handled(gw, name, f) ==
  IF f.thrown THEN ToolError("fetch failed", 0, Null)
  ELSE IF gw = "http" THEN assertOk(f, name)
  ELSE rest(f)

\* The tools/call requests: each tool of each gateway with each of its
\* arguments.
ProxyRequests ==
  UNION {{[op |-> ToolOp(name), id |-> a.id, tool |-> name, gw |-> gw, args |-> a] :
            a \in ToolArgs(name), gw \in Gateways} : name \in ToolNames}

\* A call's record: the requests its handler has passed to fetch, what the
\* last fetch resolved to and the tool's result.
NoCall == [requests |-> <<>>, code |-> 0, upstream |-> Null, result |-> Null]

InitProxy ==
  /\ store = Fresh("co_1").store
  /\ now = 0
  /\ resp = Response("create", "co_1", "rest", Created(Fresh("co_1")), 0, FALSE)
  /\ hreq \in [Handlers -> {NoRequest} \cup ProxyRequests]
  /\ \A h \in Handlers \ Waiters : hreq[h] = NoRequest
  /\ \E h \in Waiters : hreq[h] # NoRequest
  /\ pc = [h \in Handlers |-> IF hreq[h] = NoRequest THEN "off" ELSE "start"]
  /\ hresp = [h \in Handlers |-> NoCall]
  /\ writes = 0

\* The call arrives: the server checks the arguments against the tool's
\* schema and runs the handler, or answers the error without running it.
ProxyReceive(h) ==
  /\ pc[h] = "start"
  /\ IF ParamsOk(hreq[h].tool, hreq[h].args)
     THEN /\ pc' = [pc EXCEPT ![h] = "fetch"]
          /\ hresp' = hresp
     ELSE /\ pc' = [pc EXCEPT ![h] = "done"]
          /\ hresp' = [hresp EXCEPT ![h].result = ToolError("invalid params", 0, Null)]
  /\ UNCHANGED <<store, now, resp, hreq, writes>>

\* The handler's fetch and what follows it, recorded.
Fetches(h, q, f) ==
  /\ store' = f.store
  /\ resp' = IF f.thrown \/ ~f.json THEN resp
             ELSE [op |-> hreq[h].op,
                   id |-> IF hreq[h].op = "create" THEN CreatedId(f) ELSE q.id,
                   code |-> f.code, body |-> f.body, route |-> "rest", posts |-> 0,
                   fallback |-> FALSE]
  /\ writes' = IF f.store # store THEN writes + 1 ELSE writes

\* A handler that sends its request again when the first fetch fails.
ProxyFetch_Retry(h) ==
  /\ pc[h] = "fetch"
  /\ \E out \in UpstreamOutcomes, rid \in IF hreq[h].tool = "create_checkout" THEN Ids ELSE {""} :
       \E q \in {ToolRequest(hreq[h].tool, hreq[h].args)} :
         \E f \in {Fetched(store, q, out, rid, now)} :
           /\ Fetches(h, q, f)
           /\ hresp' = [hresp EXCEPT ![h] =
                          [requests |-> IF f.thrown \/ ~HttpOk(f.code)
                                        THEN hresp[h].requests \o <<q, q>>
                                        ELSE Append(hresp[h].requests, q),
                           code |-> f.code,
                           upstream |-> f.body,
                           result |-> Handled(hreq[h].gw, hreq[h].tool, f)]]
  /\ pc' = [pc EXCEPT ![h] = "done"]
  /\ UNCHANGED <<now, hreq>>

\* The tool's handler: one fetch, then assertOk or rest's check, then the
\* return or the throw.
ProxyFetch(h) ==
  /\ pc[h] = "fetch"
  /\ \E out \in UpstreamOutcomes, rid \in IF hreq[h].tool = "create_checkout" THEN Ids ELSE {""} :
       \E q \in {ToolRequest(hreq[h].tool, hreq[h].args)} :
         \E f \in {Fetched(store, q, out, rid, now)} :
           /\ Fetches(h, q, f)
           /\ hresp' = [hresp EXCEPT ![h] =
                          [requests |-> Append(hresp[h].requests, q),
                           code |-> f.code,
                           upstream |-> f.body,
                           result |-> Handled(hreq[h].gw, hreq[h].tool, f)]]
  /\ pc' = [pc EXCEPT ![h] = "done"]
  /\ UNCHANGED <<now, hreq>>

NextProxy ==
  \/ Tick
  \/ \E h \in Handlers : ProxyReceive(h)
  \/ \E h \in Handlers : ProxyFetch(h)

SpecProxy == InitProxy /\ [][NextProxy]_vars

\* ------------------------------------------ the store's callers and objects
\* Code of the app's process that calls the store's functions and keeps what
\* they return. A checkout is a JavaScript object and its lines an array:
\* createCheckout stores the object it returns, with the array it was
\* passed; getCheckout and the early returns hand out the stored object;
\* `{ ...existing, ... }` is a new object that shares existing's array
\* unless `lines` is given.
\* What a caller holds: the value of its object, and whether that object is
\* the one the store holds under the id (`object`) and whether its lines are
\* the array of the stored checkout (`array`).
NoRef == [id |-> "", value |-> Null, object |-> FALSE, array |-> FALSE]
Ref(c) == [id |-> c.id, value |-> c, object |-> TRUE, array |-> TRUE]

OwnerLines == <<CartLine("p3", 2)>>

\* The calls: each function on the stored id, update and get also on an
\* id that is not stored.
OwnerRequests ==
  {[op |-> "create", id |-> "", lines |-> OwnerLines]}
    \cup {[op |-> o, id |-> "co_1", lines |-> <<>>] : o \in {"get", "complete", "cancel"}}
    \cup {[op |-> "get", id |-> "co_none", lines |-> <<>>]}
    \cup {[op |-> "update", id |-> i, lines |-> OwnerLines] : i \in {"co_1", "co_none"}}

InitOwner ==
  /\ store = Fresh("co_1").store
  /\ now = 0
  /\ resp = Response("create", "co_1", "rest", Created(Fresh("co_1")), 0, FALSE)
  /\ hreq \in [Handlers -> {NoRequest} \cup OwnerRequests]
  /\ \A h \in Handlers \ Waiters : hreq[h] = NoRequest
  /\ \E h \in Waiters : hreq[h] # NoRequest
  /\ pc = [h \in Handlers |-> IF hreq[h] = NoRequest THEN "off" ELSE "start"]
  /\ hresp = [h \in Handlers |-> NoRef]
  /\ writes = 0

\* The store function a call is of.
StoreCall(s, req, rid, t) ==
  CASE req.op = "create" -> createCheckout(s, req.lines, rid, t)
    [] req.op = "get" -> [store |-> s, ret |-> getCheckout(s, req.id)]
    [] req.op = "update" -> updateCheckout(s, req.id, req.lines, t)
    [] req.op = "complete" -> completeCheckout(s, req.id, t)
    [] req.op = "cancel" -> cancelCheckout(s, req.id, t)

\* What becomes of a reference when store.set(id, o) puts a new object under
\* the id: it is no longer the stored object, and its array is the stored
\* one only if the new object was spread from the old without `lines`.
Detached(ref, id, op) ==
  IF ref.id # id THEN ref
  ELSE [ref EXCEPT !.object = FALSE,
                   !.array = ref.array /\ op \in {"complete", "cancel"}]

\* Whether a call reaches its store.set: create always, update, complete
\* and cancel for a stored checkout of status CREATED.
Sets(s, req) ==
  \/ req.op = "create"
  \/ /\ req.op \in {"update", "complete", "cancel"}
     /\ req.id \in DOMAIN s
     /\ s[req.id].status = "CREATED"

\* A caller calls the store and keeps what it returns.
OwnerCalls(h) ==
  /\ pc[h] = "start"
  /\ \E rid \in IF hreq[h].op = "create" THEN Ids ELSE {""} :
       \E r \in {StoreCall(store, hreq[h], rid, now)} :
         /\ store' = r.store
         /\ writes' = IF r.store # store THEN writes + 1 ELSE writes
         /\ hresp' = [g \in Handlers |->
                        IF g = h THEN (IF r.ret = Null THEN NoRef ELSE Ref(r.ret))
                        ELSE IF Sets(store, hreq[h])
                        THEN Detached(hresp[g], r.ret.id, hreq[h].op)
                        ELSE hresp[g]]
         /\ pc' = [pc EXCEPT ![h] = IF r.ret = Null THEN "done" ELSE "holds"]
  /\ UNCHANGED <<now, resp, hreq>>

\* The writes a caller can make to what it holds: `c.status = "CANCELED"`
\* on the returned object, `c.lines.length = 0` on its array, and
\* `lines.length = 0` on the array it passed to create or update.
OwnerWriteKinds == {"field", "array", "passed"}

\* Whether the array the caller passed is the array of what it holds.
PassedIsHeld(req, ref) ==
  \/ req.op = "create"
  \/ req.op = "update" /\ ref.value.status = "CREATED" /\ ref.value.lines = req.lines

\* An object after the write, seen through a reference to it or to its array.
Written(c, kind) ==
  IF kind = "field" THEN [c EXCEPT !.status = "CANCELED"] ELSE [c EXCEPT !.lines = <<>>]

\* A caller writes to what it holds: the write is seen through every
\* reference to the same object or array, the store's among them.
OwnerWrites(h) ==
  /\ pc[h] = "holds"
  /\ \E kind \in OwnerWriteKinds :
       \E hit \in {IF kind = "field" THEN "object"
                   ELSE IF kind = "array" \/ PassedIsHeld(hreq[h], hresp[h]) THEN "array"
                   ELSE "none"} :
         /\ hresp' = [g \in Handlers |->
                        IF hit = "none" THEN hresp[g]
                        ELSE IF g = h THEN [hresp[g] EXCEPT !.value = Written(@, kind)]
                        ELSE IF hresp[g].id = hresp[h].id /\ hresp[g][hit] /\ hresp[h][hit]
                        THEN [hresp[g] EXCEPT !.value = Written(@, kind)]
                        ELSE hresp[g]]
         /\ store' = IF hit # "none" /\ hresp[h][hit]
                     THEN [store EXCEPT ![hresp[h].id] = Written(@, kind)]
                     ELSE store
  /\ pc' = [pc EXCEPT ![h] = "wrote"]
  /\ UNCHANGED <<now, resp, hreq, writes>>

NextOwner ==
  \/ Tick
  \/ \E h \in Handlers : OwnerCalls(h)
  \/ \E h \in Handlers : OwnerWrites(h)

SpecOwner == InitOwner /\ [][NextOwner]_vars

\* ------------------------------------- the client, message by message
\* createCheckoutViaMcp and completeCheckoutViaMcp under their routes, with
\* every request mcpPost sends and every answer it gets.
PROTOCOL_VERSION == "2024-11-05"

\* The request mcpPost sends: the JSON-RPC method and the mcp-session-id and
\* mcp-protocol-version headers, "" for a header that is not set.
mcpPost(method, sid, pv) == [method |-> method, session |-> sid, version |-> pv]

\* initReq: the body of the initialize, whose params name the protocol
\* version the client requests.
initReq == [method |-> "initialize", protocolVersion |-> PROTOCOL_VERSION]

\* What comes back to the initialize: one of the failures, or a result with
\* an mcp-session-id header or none ("") and a protocolVersion in the result
\* (the requested one, an older one, a newer one) or none ("").
InitAnswers ==
  {[kind |-> k, session |-> "", version |-> ""] : k \in InitFailures \ {"no_session"}}
    \cup {[kind |-> "ok", session |-> sid, version |-> v] :
            sid \in {"", "s_1", "s_2"},
            v \in {"", PROTOCOL_VERSION, "2024-10-07", "2025-03-26"}}

\* initSession that returns without a session id.
initSession_NoSessionCheck(a) ==
  IF a.kind # "ok" THEN [ok |-> FALSE, sessionId |-> "", protocolVersion |-> ""]
  ELSE [ok |-> TRUE, sessionId |-> a.session,
        protocolVersion |-> IF a.version # "" THEN a.version ELSE PROTOCOL_VERSION]

\* initSession that keeps the version it requested.
initSession_OwnVersion(a) ==
  IF a.kind # "ok" THEN [ok |-> FALSE, sessionId |-> "", protocolVersion |-> ""]
  ELSE IF a.session = "" THEN [ok |-> FALSE, sessionId |-> "", protocolVersion |-> ""]
  ELSE [ok |-> TRUE, sessionId |-> a.session, protocolVersion |-> PROTOCOL_VERSION]

\* initSession(), from the answer to its mcpPost: `ok` is false when mcpPost
\* or initSession throws.
initSession(a) ==
  IF a.kind # "ok" THEN [ok |-> FALSE, sessionId |-> "", protocolVersion |-> ""]
  ELSE IF a.session = "" THEN [ok |-> FALSE, sessionId |-> "", protocolVersion |-> ""]
  ELSE [ok |-> TRUE, sessionId |-> a.session,
        protocolVersion |-> IF a.version # "" THEN a.version ELSE PROTOCOL_VERSION]

\* The failure of the initialize an answer is.
InitNet(a) == IF a.kind = "ok" THEN "no_session" ELSE a.kind

\* A client operation's record: the requests it has sent, the protocol
\* version its initialize requested, the answers it has got and the result
\* of the tool the gateway ran for it.
NoPosts == [posts |-> <<>>, requested |-> "", answers |-> <<>>, tr |-> Null]

InitHs ==
  /\ store = Fresh("co_1").store
  /\ now = 0
  /\ resp = Response("create", "co_1", "rest", Created(Fresh("co_1")), 0, FALSE)
  /\ hreq \in [Handlers -> {NoRequest} \cup WaitRequests]
  /\ \A h \in Handlers \ Waiters : hreq[h] = NoRequest
  /\ \E h \in Waiters : hreq[h] # NoRequest
  /\ pc = [h \in Handlers |-> IF hreq[h] = NoRequest THEN "off" ELSE "start"]
  /\ hresp = [h \in Handlers |-> NoPosts]
  /\ writes = 0

\* The route's return, recorded.
HsReturned(h, r) ==
  /\ store' = r.store
  /\ resp' = Response(hreq[h].op, IF hreq[h].op = "create" THEN CreatedId(r) ELSE hreq[h].id,
                      "mcp", r, r.posts, r.fallback)
  /\ writes' = IF r.store # store THEN writes + 1 ELSE writes
  /\ pc' = [pc EXCEPT ![h] = "done"]
  /\ UNCHANGED <<now, hreq>>

\* The route up to the first fetch: its check of lines, then initSession's
\* mcpPost of the initialize, without headers.
HsStart(h) ==
  /\ pc[h] = "start"
  /\ IF hreq[h].op = "create" /\ LinesRejected([kind |-> "array", lines |-> hreq[h].lines])
     THEN /\ \E r \in {Unserved(hreq[h], "down", "")} : HsReturned(h, r)
          /\ hresp' = hresp
     ELSE /\ pc' = [pc EXCEPT ![h] = "init"]
          /\ hresp' = [hresp EXCEPT
                         ![h].posts = Append(@, mcpPost(initReq.method, "", "")),
                         ![h].requested = initReq.protocolVersion]
          /\ UNCHANGED <<store, now, resp, hreq, writes>>

\* The initialize is answered: initSession returns and the operation sends
\* its tools/call with the session and version it got, or it throws and the
\* route falls back.
HsInitAnswered(h) ==
  /\ pc[h] = "init"
  /\ \E a \in InitAnswers :
       \E i \in {initSession(a)} :
         IF i.ok
         THEN /\ pc' = [pc EXCEPT ![h] = "call"]
              /\ hresp' = [hresp EXCEPT
                             ![h].answers = Append(@, a),
                             ![h].posts = Append(@, mcpPost("tools/call", i.sessionId,
                                                            i.protocolVersion))]
              /\ UNCHANGED <<store, now, resp, hreq, writes>>
         ELSE /\ \E rid2 \in IF hreq[h].op = "create" THEN Ids ELSE {""} :
                   \E r \in {Unserved(hreq[h], InitNet(a), rid2)} : HsReturned(h, r)
              /\ hresp' = [hresp EXCEPT ![h].answers = Append(@, a)]

\* The gateway runs the tool of the tools/call it received.
HsCallRuns(h) ==
  /\ pc[h] = "call"
  /\ \E rid \in IF hreq[h].op = "create" THEN Ids ELSE {""} :
       \E tr \in {ToolCall(store, McpTool(hreq[h]), McpArgs(hreq[h]), rid, now)} :
         /\ store' = tr.store
         /\ hresp' = [hresp EXCEPT ![h].tr = tr]
         /\ writes' = IF tr.store # store THEN writes + 1 ELSE writes
  /\ pc' = [pc EXCEPT ![h] = "ran"]
  /\ UNCHANGED <<now, resp, hreq>>

\* The tools/call is answered, or fails: the operation returns the checkout
\* or throws, and the route answers or falls back. No request follows.
HsCallAnswered(h) ==
  /\ \/ /\ pc[h] = "call"
        /\ \E net \in CallRefusals, rid2 \in IF hreq[h].op = "create" THEN Ids ELSE {""} :
             \E r \in {Unserved(hreq[h], net, rid2)} : HsReturned(h, r)
     \/ /\ pc[h] = "ran"
        /\ \E net \in CallLosses \cup {"up"},
              rid2 \in IF hreq[h].op = "create" THEN Ids ELSE {""} :
             \E r \in {Served(hreq[h], Parsed([hresp[h].tr EXCEPT !.store = store], net), rid2)} :
               HsReturned(h, r)
  /\ hresp' = hresp

NextHs ==
  \/ Tick
  \/ \E h \in Handlers : HsStart(h)
  \/ \E h \in Handlers : HsInitAnswered(h)
  \/ \E h \in Handlers : HsCallRuns(h)
  \/ \E h \in Handlers : HsCallAnswered(h)

SpecHs == InitHs /\ [][NextHs]_vars

\* =================================================================== claims
\* A quantity that is an integer >= 1 (in units of one half).
ValidQuantity(q) == q % 2 = 0 /\ q >= 2
ValidLines(L) == Len(L) >= 1 /\ \A i \in DOMAIN L : ValidQuantity(L[i].quantity)
Terminal(c) == c.status \in {"COMPLETED", "CANCELED"}
ArrayBody(L) == [kind |-> "array", lines |-> L]
Times == 0..MaxTime

\* C1 (as claimed): once a stored checkout is COMPLETED or CANCELED, no
\* request ever changes the status stored under its id, and the only status
\* changes are CREATED -> COMPLETED and CREATED -> CANCELED.
C1_TerminalAbsorbing ==
  [][\A id \in DOMAIN store :
       /\ id \in DOMAIN store'
       /\ Terminal(store[id]) => store'[id].status = store[id].status
       /\ store'[id].status # store[id].status
            => store[id].status = "CREATED" /\ Terminal(store'[id])]_vars

\* C2: for every stored checkout c that is COMPLETED or CANCELED and every
\* line list L, updateCheckout(c.id, L) returns c and leaves the store as it
\* was, whatever the clock reads; the PATCH route leaves the store as it was
\* for every body and answers 200 with c when it accepts the body. And the
\* checkout a PATCH has just answered for a terminal checkout is the stored one.
C2_UpdateTerminalNoOp ==
  /\ \A id \in DOMAIN store :
       Terminal(store[id]) =>
         /\ \A L \in LineLists, t \in Times :
              updateCheckout(store, id, L, t) = [store |-> store, ret |-> store[id]]
         /\ \A body \in Bodies, t \in Times :
              /\ PatchCheckout(store, id, body, t).store = store
              /\ ~(body.kind = "badjson" \/ LinesRejected(body))
                   => /\ PatchCheckout(store, id, body, t).code = 200
                      /\ PatchCheckout(store, id, body, t).body = store[id]
  /\ (resp.op = "update" /\ resp.code = 200 /\ Terminal(resp.body))
       => store[resp.id] = resp.body

\* C2 witness: a PATCH with a line list was answered 200 for a COMPLETED
\* checkout after the clock had moved past its updatedAt, and the stored
\* checkout is the one answered.
C2_Witness ==
  /\ resp.op = "update" /\ resp.code = 200
  /\ resp.body.status = "COMPLETED"
  /\ resp.body.updatedAt < now
  /\ store[resp.id] = resp.body

\* C4: for every well-formed non-empty line list L, the create route answers
\* 201 with a checkout of status CREATED whose lines are L, the checkout is
\* in the store under its id, and a get of that id answers it. And the
\* checkout a create has just answered is the stored one.
C4_CreateReturnsAndStores ==
  /\ \A L \in LineLists, rid \in Ids :
       ValidLines(L) =>
         /\ PostCheckout(store, ArrayBody(L), rid, now).code = 201
         /\ PostCheckout(store, ArrayBody(L), rid, now).body.status = "CREATED"
         /\ PostCheckout(store, ArrayBody(L), rid, now).body.lines = L
         /\ GetCheckout(PostCheckout(store, ArrayBody(L), rid, now).store,
                        PostCheckout(store, ArrayBody(L), rid, now).body.id)
              = [store |-> PostCheckout(store, ArrayBody(L), rid, now).store,
                 code |-> 200,
                 body |-> PostCheckout(store, ArrayBody(L), rid, now).body]
  /\ (resp.op = "create" /\ resp.code = 201)
       => /\ resp.id \in DOMAIN store
          /\ store[resp.id] = resp.body
          /\ resp.body.status = "CREATED"

\* C4 witness: a create was answered 201 for the cart <<p2, p1>>, in that
\* order, while another checkout was stored.
C4_Witness ==
  /\ resp.op = "create" /\ resp.code = 201
  /\ resp.body.lines = <<CartLine("p2", 4), CartLine("p1", 2)>>
  /\ store[resp.id] = resp.body
  /\ Cardinality(DOMAIN store) = 2

\* C5: for every id that is not in the store, getCheckout, updateCheckout,
\* completeCheckout and cancelCheckout return null and the store they leave
\* is the store they found; the routes answer 404 (PATCH: when it accepts
\* the body) and leave the store as it was.
C5_AbsentIdNotFound ==
  /\ \A id \in ReqIds \ DOMAIN store :
       /\ getCheckout(store, id) = Null
       /\ completeCheckout(store, id, now) = [store |-> store, ret |-> Null]
       /\ cancelCheckout(store, id, now) = [store |-> store, ret |-> Null]
       /\ \A L \in LineLists :
            updateCheckout(store, id, L, now) = [store |-> store, ret |-> Null]
       /\ GetCheckout(store, id).code = 404
       /\ PostComplete(store, id, now).code = 404
       /\ PostComplete(store, id, now).store = store
       /\ PostCancel(store, id, now).code = 404
       /\ PostCancel(store, id, now).store = store
       /\ \A L \in LineLists \ {<<>>} :
            /\ PatchCheckout(store, id, ArrayBody(L), now).code = 404
            /\ PatchCheckout(store, id, ArrayBody(L), now).store = store
  /\ (resp.route = "rest" /\ resp.code = 404) => resp.id \notin DOMAIN store

\* C5 witness: an update of an id that is not stored was answered 404 while
\* the store held a checkout, and the id is still not stored.
C5_Witness ==
  /\ resp.op = "update" /\ resp.code = 404
  /\ resp.id \notin DOMAIN store
  /\ store # <<>>

\* The status a terminal call answers for a stored checkout: the target
\* status when the checkout is CREATED, else the status it has.
After(c, target) == IF c.status = "CREATED" THEN target ELSE c.status
Done(h) == pc[h] = "done"

\* C3 (as claimed): for every stored id, two calls of completeCheckout
\* return the same checkout, of status COMPLETED, and the second leaves the
\* store as the first left it; the same for cancelCheckout with CANCELED.
C3_AsClaimed ==
  \A id \in DOMAIN store, t1 \in Times, t2 \in Times :
    t1 <= t2 =>
      /\ completeCheckout(store, id, t1).ret.status = "COMPLETED"
      /\ completeCheckout(completeCheckout(store, id, t1).store, id, t2)
           = completeCheckout(store, id, t1)
      /\ cancelCheckout(store, id, t1).ret.status = "CANCELED"
      /\ cancelCheckout(cancelCheckout(store, id, t1).store, id, t2)
           = cancelCheckout(store, id, t1)

\* C3 (amended): for every stored id, two calls of completeCheckout return
\* the same checkout (same status, lines and updatedAt) and the second leaves
\* the store as the first left it; the status is COMPLETED unless the
\* checkout was CANCELED before the first call. The same for cancelCheckout,
\* with CANCELED unless the checkout was COMPLETED. And two handlers that
\* served the same route for one id answered the same checkout.
C3_RepeatedTerminalCall ==
  /\ \A id \in DOMAIN store, t1 \in Times, t2 \in Times :
       t1 <= t2 =>
         /\ completeCheckout(store, id, t1).ret.status = After(store[id], "COMPLETED")
         /\ completeCheckout(completeCheckout(store, id, t1).store, id, t2)
              = completeCheckout(store, id, t1)
         /\ cancelCheckout(store, id, t1).ret.status = After(store[id], "CANCELED")
         /\ cancelCheckout(cancelCheckout(store, id, t1).store, id, t2)
              = cancelCheckout(store, id, t1)
  /\ \A h1 \in Handlers, h2 \in Handlers :
       (Done(h1) /\ Done(h2) /\ hreq[h1] = hreq[h2]) => hresp[h1] = hresp[h2]

\* C3 witness: two handlers completed one checkout; both answered the same
\* COMPLETED checkout, the store changed once, and the clock has moved past
\* the checkout's updatedAt.
C3_Witness ==
  \E h1 \in Handlers, h2 \in Handlers :
    /\ h1 # h2 /\ Done(h1) /\ Done(h2)
    /\ hreq[h1].op = "complete" /\ hreq[h2].op = "complete"
    /\ hresp[h1] = hresp[h2]
    /\ hresp[h1].body.status = "COMPLETED"
    /\ hresp[h1].body.updatedAt < now
    /\ writes = 1

\* C6: a create whose body has no lines, lines that are no array or an empty
\* array is answered 400 by the create route and by the binding-selecting
\* create route, the store they leave is the store they found, and the
\* second makes no fetch to the gateway and no fallback, whatever the gateway
\* would answer. And a create just answered 400 made no fetch and no fallback.
C6_EmptyCreateRejected ==
  /\ \A body \in Bodies :
       (body.kind \in {"missing", "nonarray"} \/ (body.kind = "array" /\ body.lines = <<>>)) =>
         /\ \A rid \in Ids :
              \A r \in {PostCheckout(store, body, rid, now)} :
                r.code = 400 /\ r.store = store
         /\ \A net \in Nets, rid \in Ids, rid2 \in Ids :
              \A r \in {PostCheckoutViaMcp(store, body, net, rid, rid2, now)} :
                r.code = 400 /\ r.store = store /\ r.posts = 0 /\ ~r.fallback
  /\ (resp.op = "create" /\ resp.code = 400) => (resp.posts = 0 /\ ~resp.fallback)

\* C6 witness: the binding-selecting create route answered 400 for its lines
\* while the store held a checkout.
C6_Witness ==
  /\ resp.op = "create" /\ resp.route = "mcp" /\ resp.code = 400
  /\ resp.body = ErrLines
  /\ store # <<>>

\* C7 (as claimed): every line of every stored checkout has an integer
\* quantity >= 1.
C7_QuantitiesValid ==
  \A id \in DOMAIN store :
    \A i \in DOMAIN store[id].lines : ValidQuantity(store[id].lines[i].quantity)

\* C8: every stored checkout of status CREATED has at least one line.
C8_CreatedHasLines ==
  \A id \in DOMAIN store : store[id].status = "CREATED" => Len(store[id].lines) >= 1

\* C8 witness: an update was answered 200 for a CREATED checkout at a later
\* clock value than its creation, and the stored checkout has two lines.
C8_Witness ==
  /\ resp.op = "update" /\ resp.code = 200
  /\ resp.body.status = "CREATED"
  /\ resp.body.createdAt < resp.body.updatedAt
  /\ Len(store[resp.id].lines) = 2

\* C9 (as claimed): a stored checkout stays stored under its id with that
\* id, and every create answers an id under which nothing was stored, so
\* that it replaces no checkout.
C9_IdsUniqueAndStable ==
  [][/\ \A id \in DOMAIN store : id \in DOMAIN store' /\ store'[id].id = id
     /\ (now' = now /\ resp'.op = "create" /\ resp'.code = 201)
          => resp'.id \notin DOMAIN store]_vars

\* C10: when every request is a complete of the one fresh checkout, the
\* store changes at most once under every interleaving of the handlers;
\* every handler that has answered answered 200 with the stored COMPLETED
\* checkout, so all answers are the same; and once a handler has answered
\* the store has changed exactly once.
AllComplete == \A h \in Handlers : hreq[h].op \in {"none", "complete"}

C10_OneTransition ==
  AllComplete =>
    /\ writes <= 1
    /\ \A h \in Handlers :
         Done(h) =>
           /\ writes = 1
           /\ hresp[h].code = 200
           /\ hresp[h].body.status = "COMPLETED"
           /\ hresp[h].body = store[hreq[h].id]
    /\ \A h1 \in Handlers, h2 \in Handlers :
         (Done(h1) /\ Done(h2)) => hresp[h1] = hresp[h2]

\* C10 witness: NumHandlers handlers have all completed the checkout, after
\* the clock moved.
C10_Witness ==
  /\ AllComplete
  /\ \A h \in Handlers : Done(h)
  /\ writes = 1
  /\ now > 0

\* The handlers that have answered, and the orders they can be put in.
DoneSet == {h \in Handlers : pc[h] = "done"}
Orders(D) ==
  {o \in [1..Cardinality(D) -> D] : \A i, j \in DOMAIN o : o[i] = o[j] => i = j}

\* The calls of order[i..], made one after the other on store s at clock
\* values that do not decrease from tmin, answer what the handlers answered
\* and leave the current store.
RECURSIVE SerialRun(_, _, _, _)
SerialRun(s, order, i, tmin) ==
  IF i > Len(order) THEN s = store
  ELSE \E t \in tmin..now :
         /\ RouteLin(s, hreq[order[i]], t).code = hresp[order[i]].code
         /\ RouteLin(s, hreq[order[i]], t).body = hresp[order[i]].body
         /\ SerialRun(RouteLin(s, hreq[order[i]], t).store, order, i + 1, t)

\* C11: in every state of every interleaving of get, update, complete and
\* cancel handlers on one fresh checkout, the answers given so far and the
\* stored checkout are those of the same calls made one after the other in
\* some order; a get of the id answers the stored checkout; every handler
\* of complete or cancel that has answered answered the status now stored;
\* and without an update the store changed at most once.
C11_Linearizable ==
  /\ \E order \in Orders(DoneSet) :
       \E id \in DOMAIN store : SerialRun(Fresh(id).store, order, 1, 0)
  /\ \A id \in DOMAIN store : GetCheckout(store, id).body = store[id]
  /\ \A h \in DoneSet :
       hreq[h].op \in ConcOps =>
         /\ hresp[h].code = 200
         /\ hresp[h].body.status = store[hreq[h].id].status
  /\ (\A h \in Handlers : hreq[h].op # "update") => writes <= 1

\* C11 witness: an update with a new line list, a complete and a cancel
\* have all answered; the update was applied, then one of the two terminal
\* calls, at a later clock value.
C11_Witness ==
  \E h1 \in Handlers, h2 \in Handlers, h3 \in Handlers :
    /\ DoneSet = {h1, h2, h3}
    /\ hreq[h1].op = "update" /\ hreq[h2].op = "complete" /\ hreq[h3].op = "cancel"
    /\ hresp[h1].code = 200 /\ hresp[h1].body.status = "CREATED"
    /\ hresp[h1].body.lines = hreq[h1].lines
    /\ hresp[h2].body = hresp[h3].body
    /\ hresp[h2].body.lines = hreq[h1].lines
    /\ hresp[h2].body.updatedAt > 0
    /\ writes = 2

\* C12: for every non-empty line list and every way the gateway path can
\* fail, createCheckoutViaMcp throws and the binding-selecting create answers
\* 201, by the fallback, with a checkout of status CREATED and the request's
\* lines that is in the store it leaves under its id. And a create that has
\* just fallen back answered 201 with a CREATED checkout that is stored.
C12_CreateFallsBack ==
  /\ \A L \in LineLists \ {<<>>}, net \in Nets, rid \in Ids, rid2 \in Ids :
       \A m \in {createCheckoutViaMcp(store, L, net, rid, now)},
          r \in {PostCheckoutViaMcp(store, ArrayBody(L), net, rid, rid2, now)} :
         /\ net # "up" => ~m.ok
         /\ ~m.ok =>
              /\ r.code = 201
              /\ r.fallback
              /\ r.body = [id |-> rid2, status |-> "CREATED", lines |-> L,
                            createdAt |-> now, updatedAt |-> now]
              /\ r.store[rid2] = r.body
  /\ (resp.route = "mcp" /\ resp.op = "create" /\ resp.posts > 0) =>
       /\ resp.code = 201
       /\ resp.body.status = "CREATED"
  /\ (resp.route = "mcp" /\ resp.op = "create" /\ resp.fallback) =>
       /\ resp.id \in DOMAIN store
       /\ store[resp.id] = resp.body

\* C12 witness: a binding-selecting create made both fetches, fell back and
\* answered 201 with a stored CREATED checkout, at a clock value past 0.
C12_Witness ==
  /\ resp.route = "mcp" /\ resp.op = "create"
  /\ resp.fallback /\ resp.posts = 2
  /\ resp.code = 201
  /\ resp.body.status = "CREATED" /\ resp.body.createdAt > 0
  /\ store[resp.id] = resp.body

\* C13: for every id and every outcome of the gateway path, the
\* binding-selecting complete makes the attempt first; when the attempt
\* succeeds it answers 200 with the checkout the tool returned; when it
\* fails in any way the route calls completeCheckout on the store the
\* attempt left and answers 200 with the checkout it returns when the id is
\* stored, 404 and an unchanged store when it is not. And a
\* binding-selecting complete just answered made a fetch and answered 200
\* with the stored checkout or, after the fallback, 404 for an id not stored.
C13_CompleteFallsBack ==
  /\ \A id \in ReqIds, net \in Nets :
       \A m \in {completeCheckoutViaMcp(store, id, net, now)},
          r \in {PostCompleteViaMcp(store, id, net, now)} :
         /\ m.posts >= 1 /\ r.posts = m.posts
         /\ net # "up" => ~m.ok
         /\ m.ok => (r.code = 200 /\ r.body = m.checkout /\ ~r.fallback)
         /\ ~m.ok =>
              /\ r.fallback
              /\ r.store = completeCheckout(m.store, id, now).store
              /\ id \in DOMAIN store =>
                   /\ r.code = 200
                   /\ r.body = completeCheckout(m.store, id, now).ret
                   /\ r.body.id = id /\ r.body.status # "CREATED"
              /\ id \notin DOMAIN store =>
                   (r.code = 404 /\ r.body = ErrNotFoundMcp /\ r.store = store)
  /\ (resp.route = "mcp" /\ resp.op = "complete") =>
       /\ resp.posts >= 1
       /\ resp.code \in {200, 404}
       /\ resp.code = 200 => (resp.id \in DOMAIN store /\ store[resp.id] = resp.body)
       /\ resp.code = 404 => (resp.id \notin DOMAIN store /\ resp.fallback)

\* C13 witness: a binding-selecting complete found the gateway down, fell
\* back and answered 200 with the checkout it completed at a clock value
\* past the checkout's creation.
C13_Witness ==
  /\ resp.route = "mcp" /\ resp.op = "complete"
  /\ resp.fallback /\ resp.posts = 1
  /\ resp.code = 200
  /\ resp.body.status = "COMPLETED"
  /\ resp.body.updatedAt > resp.body.createdAt
  /\ store[resp.id] = resp.body

\* C14 (as claimed): a handler of a binding-selecting route that waits for
\* the answer to its initialize or to its tools/call eventually returns,
\* also when the gateway never answers.
C14_BoundedWait ==
  \A h \in Handlers : (pc[h] \in {"init", "call", "ran"}) ~> (pc[h] = "done")

\* C15 (as claimed): in every state, each tool call with the advertised
\* profile leaves the store that the same operation through the Resource
\* API leaves, is an error exactly when the Resource API's answer is not
\* 2xx, and otherwise returns the checkout the Resource API answers.
C15_BindingsAgree ==
  \A name \in ToolNames :
    \A args \in ToolArgs(name), rid \in IF name = "create_checkout" THEN Ids ELSE {""} :
      \A g \in {ToolCall(store, name, args, rid, now)},
         a \in {Upstream(store, name, args, rid, now)} :
        (args.meta /\ args.profile = UCP_PROFILE) =>
          /\ g.store = a.store
          /\ g.isError = ~HttpOk(a.code)
          /\ ~g.isError => g.body = a.body

\* The fields of a checkout other than its id and its timestamps.
Shape(c) == [f \in DOMAIN c \ {"id", "createdAt", "updatedAt"} |-> c[f]]
CheckoutFields == {"id", "status", "lines", "createdAt", "updatedAt"}

C17_EnvelopeNormalized ==
  \A id \in DOMAIN store :
    /\ \A env \in {[checkout |-> store[id]], [checkout |-> toUcpCheckout(store[id])]} :
         \A r \in {parseCheckoutFromToolResult([kind |-> "json", value |-> env])} :
           /\ r.ok
           /\ r.checkout.id = id
           /\ "lines" \in DOMAIN r.checkout
           /\ r.checkout.lines = store[id].lines
    /\ checkoutId(store[id]) = id
    /\ checkoutId([checkout |-> store[id]]) = id

\* A tools/call the gateway did not run: the request was not sent upstream
\* and the call has not answered a result.
Refused(h) ==
  /\ pc[h] # "upstream"
  /\ Done(h) => (~hresp[h].sent /\ hresp[h].isError)

\* C18 (as claimed): a tools/call that carries no session identifier, or
\* one no initialize of the gateway assigned, runs no tool handler and sends
\* no request upstream, and the store does not change. (Every request of
\* this scenario carries such a header: the gateway assigns no session.)
C18_SessionRequired ==
  /\ \A h \in Handlers : hreq[h] # NoRequest => Refused(h)
  /\ writes = 0

\* C19 (as claimed): a tools/call whose _meta.ucp.profile is absent, empty
\* or other than ucp.checkout.v1 runs no tool handler and sends no request
\* upstream.
C19_ProfileRecognized ==
  \A h \in Handlers :
    (hreq[h] # NoRequest /\ (~hreq[h].args.meta \/ hreq[h].args.profile # UCP_PROFILE))
      => Refused(h)

\* line_items that are empty or hold an item with an empty id or with a
\* quantity that is no integer >= 1.
BadItems(items) ==
  \/ Len(items) = 0
  \/ \E i \in DOMAIN items : items[i].item.id = "" \/ ~ValidQuantity(items[i].quantity)

BadItemsCall(h) ==
  /\ hreq[h].op \in {"create", "update"}
  /\ BadItems(hreq[h].args.line_items)

\* C20: a create_checkout or update_checkout call whose line_items is
\* empty or holds an item with an empty id or a quantity that is zero,
\* negative or no integer ends in a tool error without a request sent
\* upstream, whatever its session header, profile and id; and when every
\* call is such a call the store stays as it was.
C20_ItemsValidatedFirst ==
  /\ \A h \in Handlers :
       BadItemsCall(h) => (Refused(h) /\ (Done(h) => hresp[h].body = Null))
  /\ (\A h \in Handlers : hreq[h] = NoRequest \/ BadItemsCall(h))
       => (writes = 0 /\ store = Fresh("co_1").store)

\* C20 witness: an update_checkout of the stored CREATED checkout with an
\* item of quantity 0 and a create_checkout with one of quantity 0.5 have
\* both ended in an error, nothing was sent upstream and the stored checkout
\* has the lines it was created with.
C20_Witness ==
  \E h1 \in Handlers, h2 \in Handlers :
    /\ Done(h1) /\ Done(h2)
    /\ hreq[h1].tool = "update_checkout" /\ hreq[h1].id = "co_1"
    /\ hreq[h1].args.line_items = <<LineItem("p1", 0)>>
    /\ hreq[h2].tool = "create_checkout"
    /\ hreq[h2].args.line_items = <<LineItem("p1", 1)>>
    /\ hresp[h1].isError /\ ~hresp[h1].sent
    /\ hresp[h2].isError /\ ~hresp[h2].sent
    /\ store = Fresh("co_1").store
    /\ writes = 0

\* The Resource API request of the operation a tool maps to, from the
\* call's tool and arguments alone.
ExpectedRequest(r) ==
  [method |-> CASE r.op = "get" -> "GET" [] r.op = "update" -> "PATCH" [] OTHER -> "POST",
   route |-> CASE r.op = "create" -> "/api/ucp/checkout"
               [] r.op = "complete" -> "/api/ucp/checkout/[id]/complete"
               [] r.op = "cancel" -> "/api/ucp/checkout/[id]/cancel"
               [] OTHER -> "/api/ucp/checkout/[id]",
   id |-> IF r.op = "create" THEN "" ELSE r.args.id,
   lines |-> IF r.op \in {"create", "update"}
             THEN [i \in DOMAIN r.args.line_items |->
                     CartLine(r.args.line_items[i].item.id, r.args.line_items[i].quantity)]
             ELSE <<>>]

\* C21: a tool call of either gateway has passed at most one request to
\* fetch; once a call whose arguments pass the schema has returned, it has
\* sent exactly one request, the one of the operation its tool maps to,
\* whether the upstream answered 2xx, answered an error or was unreachable;
\* a handler that has not reached its fetch has sent none; and two calls of
\* the same tool with the same arguments sent the same request, whatever
\* was called before them.
C21_OneUpstreamRequest ==
  /\ \A h \in Handlers :
       hreq[h] # NoRequest =>
         /\ Len(hresp[h].requests) <= 1
         /\ pc[h] # "done" => hresp[h].requests = <<>>
         /\ (Done(h) /\ ParamsOk(hreq[h].tool, hreq[h].args))
              => hresp[h].requests = <<ExpectedRequest(hreq[h])>>
  /\ \A h1 \in Handlers, h2 \in Handlers :
       (Done(h1) /\ Done(h2) /\ hreq[h1] # NoRequest /\ hreq[h2] # NoRequest
          /\ hreq[h1].tool = hreq[h2].tool /\ hreq[h1].args = hreq[h2].args)
         => hresp[h1].requests = hresp[h2].requests

\* C21 witness: two calls of complete_checkout for the stored checkout have
\* returned, the first after the upstream answered 500 and the second after
\* the app completed the checkout, each having sent one request.
C21_Witness ==
  \E h1 \in Handlers, h2 \in Handlers :
    /\ h1 # h2 /\ Done(h1) /\ Done(h2)
    /\ hreq[h1].tool = "complete_checkout" /\ hreq[h2].tool = "complete_checkout"
    /\ hreq[h1].args = hreq[h2].args /\ hreq[h1].id = "co_1"
    /\ hresp[h1].code = 500 /\ hresp[h1].result.isError
    /\ hresp[h2].code = 200 /\ ~hresp[h2].result.isError
    /\ Len(hresp[h1].requests) = 1 /\ Len(hresp[h2].requests) = 1
    /\ store["co_1"].status = "COMPLETED"

\* A call whose fetch was answered with a status that is not 2xx.
UpstreamFailed(h) ==
  /\ Done(h)
  /\ Len(hresp[h].requests) = 1
  /\ hresp[h].code # 0 /\ ~HttpOk(hresp[h].code)

\* C22 (as claimed): a tool call of either gateway whose upstream request
\* was answered with a status that is not 2xx ends in a tool error whose
\* message holds that status and the body of the answer, and holds no
\* checkout.
C22_UpstreamFailureSurfaced ==
  \A h \in Handlers :
    (hreq[h] # NoRequest /\ UpstreamFailed(h)) =>
      /\ hresp[h].result.isError
      /\ hresp[h].result.content = Null
      /\ hresp[h].result.status = hresp[h].code
      /\ hresp[h].result.body = hresp[h].upstream

UcpCheckoutFields == {"id", "status", "line_items", "createdAt", "updatedAt"}

\* C23 (as claimed): the request a tool call of either gateway sent
\* upstream carries the call's line_items as {productId, quantity} lines
\* with productId = item.id, in order; and the output of a call that
\* succeeded is a checkout of the fields id, status, line_items, createdAt
\* and updatedAt, with id, status and timestamps those of the upstream
\* checkout and line_items its lines mapped back in order, which for create
\* and update are the call's line_items.
C23_ShapeTranslation ==
  \A h \in Handlers :
    (hreq[h] # NoRequest /\ Done(h) /\ Len(hresp[h].requests) = 1) =>
      /\ \A items \in {hreq[h].args.line_items} :
           hreq[h].op \in {"create", "update"} =>
             /\ Len(hresp[h].requests[1].lines) = Len(items)
             /\ \A i \in DOMAIN items :
                  /\ hresp[h].requests[1].lines[i].productId = items[i].item.id
                  /\ hresp[h].requests[1].lines[i].quantity = items[i].quantity
      /\ ~hresp[h].result.isError =>
           \A out \in {hresp[h].result.content.checkout}, up \in {hresp[h].upstream} :
             /\ DOMAIN out = UcpCheckoutFields
             /\ out.id = up.id /\ out.status = up.status
             /\ out.createdAt = up.createdAt /\ out.updatedAt = up.updatedAt
             /\ Len(out.line_items) = Len(up.lines)
             /\ \A i \in DOMAIN up.lines :
                  /\ out.line_items[i].item.id = up.lines[i].productId
                  /\ out.line_items[i].quantity = up.lines[i].quantity
             /\ (hreq[h].op = "create"
                   \/ (hreq[h].op = "update" /\ up.status = "CREATED"))
                  => out.line_items = hreq[h].args.line_items

\* C24 (as claimed): a write a caller makes to a checkout the store
\* returned to it, or to the line list it passed to create or update,
\* leaves the store as it was; and what a caller holds does not change
\* while it only holds it, whatever is called on the store afterwards.
C24_Snapshot ==
  [][\A h \in Handlers :
       /\ (pc[h] = "holds" /\ pc'[h] = "wrote") => store' = store
       /\ (pc[h] = "holds" /\ pc'[h] = "holds") => hresp'[h].value = hresp[h].value]_vars

\* The ids under which a step stored a checkout: those new in the store
\* and those whose checkout it replaced.
Inserted == {id \in DOMAIN store' : id \notin DOMAIN store \/ store'[id] # store[id]}

\* C25 (as claimed): a request to the binding-selecting create route that
\* is answered 201 stores one checkout, and not two, whether the gateway's
\* tool served it or the fallback did.
C25_OneInsert ==
  [][(now' = now /\ resp'.route = "mcp" /\ resp'.op = "create" /\ resp'.code = 201)
       => Cardinality(Inserted) <= 1]_vars

\* A binding-selecting complete of the stored checkout.
CompletesStored(h) == hreq[h].op = "complete" /\ hreq[h].id = "co_1"

\* C26: when every request is a binding-selecting complete, the stored
\* checkout changes at most once however many attempts and fallbacks run;
\* every complete of the stored id that has answered answered 200 with the
\* stored COMPLETED checkout; and the step in which a handler whose tool
\* call has run reads its answer or falls back leaves the store as it was,
\* so that it answers the checkout the tool completed, updatedAt included.
C26_OneCompletion ==
  /\ [](AllComplete =>
          /\ writes <= 1
          /\ \A h \in Handlers :
               (Done(h) /\ CompletesStored(h)) =>
                 /\ hresp[h].code = 200
                 /\ hresp[h].body.status = "COMPLETED"
                 /\ hresp[h].body = store["co_1"])
  /\ [][AllComplete =>
          \A h \in Handlers :
            (pc[h] = "ran" /\ pc'[h] = "done") =>
              /\ store' = store
              /\ CompletesStored(h) =>
                   /\ hresp[h].code = 200
                   /\ hresp'[h].body = hresp[h].body
                   /\ hresp'[h].body.updatedAt = store["co_1"].updatedAt]_vars

\* C26 witness: a binding-selecting complete whose tool call ran fell back
\* and answered the COMPLETED checkout, whose updatedAt is earlier than the
\* clock, after one change of the store.
C26_Witness ==
  /\ AllComplete
  /\ resp.route = "mcp" /\ resp.op = "complete" /\ resp.id = "co_1"
  /\ resp.fallback /\ resp.posts = 2 /\ resp.code = 200
  /\ resp.body.status = "COMPLETED"
  /\ resp.body.updatedAt < now
  /\ store["co_1"] = resp.body
  /\ writes = 1

\* C27: for every stored checkout and every clock value, cancel on a
\* CREATED checkout returns and stores it with status CANCELED, and is what
\* complete returns and stores but for the status; the complete route on a
\* CANCELED checkout answers 200 with the checkout, status still CANCELED,
\* and the cancel route on a COMPLETED checkout answers 200 with it, status
\* still COMPLETED, both leaving the store as it was. And a cancel or
\* complete just answered 200 answered the stored checkout.
C27_FirstTerminalWins ==
  /\ \A id \in DOMAIN store, t \in Times :
       \A x \in {PostCancel(store, id, t)}, c \in {PostComplete(store, id, t)} :
         /\ x.code = 200 /\ c.code = 200
         /\ store[id].status = "CREATED" =>
              /\ x.body.status = "CANCELED"
              /\ x.store[id] = x.body
              /\ x.body = [c.body EXCEPT !.status = "CANCELED"]
              /\ x.body = [store[id] EXCEPT !.status = "CANCELED", !.updatedAt = t]
              /\ x.store = [c.store EXCEPT ![id].status = "CANCELED"]
         /\ store[id].status = "CANCELED" =>
              c = [store |-> store, code |-> 200, body |-> store[id]]
         /\ store[id].status = "COMPLETED" =>
              x = [store |-> store, code |-> 200, body |-> store[id]]
  /\ (resp.route = "rest" /\ resp.op \in {"complete", "cancel"} /\ resp.code = 200)
       => /\ store[resp.id] = resp.body
          /\ Terminal(resp.body)

\* C27 witness: the cancel route answered 200 with a COMPLETED checkout
\* whose updatedAt is earlier than the clock, and the stored checkout is
\* that one.
C27_Witness ==
  /\ resp.route = "rest" /\ resp.op = "cancel" /\ resp.code = 200
  /\ resp.body.status = "COMPLETED"
  /\ resp.body.updatedAt < now
  /\ store[resp.id] = resp.body

\* C28: for every stored checkout of status CREATED, every line list L and
\* every clock value, updateCheckout returns a checkout with lines L, status
\* CREATED and the id and createdAt it had, stores it under the id and
\* leaves every other checkout as it was; getCheckout then returns lines L;
\* and for non-empty L the PATCH route answers 200 with that checkout and a
\* GET after it answers lines L. And a PATCH just answered 200 with a
\* CREATED checkout answered the stored one.
C28_UpdateReplacesLines ==
  /\ \A id \in DOMAIN store, L \in LineLists, t \in Times :
       store[id].status = "CREATED" =>
         \A u \in {updateCheckout(store, id, L, t)} :
           /\ u.ret.lines = L
           /\ u.ret.status = "CREATED"
           /\ u.ret.id = store[id].id
           /\ u.ret.createdAt = store[id].createdAt
           /\ DOMAIN u.store = DOMAIN store
           /\ u.store[id] = u.ret
           /\ \A j \in DOMAIN store \ {id} : u.store[j] = store[j]
           /\ getCheckout(u.store, id).lines = L
           /\ L # <<>> =>
                /\ PatchCheckout(store, id, ArrayBody(L), t)
                     = [store |-> u.store, code |-> 200, body |-> u.ret]
                /\ GetCheckout(u.store, id).code = 200
                /\ GetCheckout(u.store, id).body.lines = L
  /\ (resp.op = "update" /\ resp.code = 200 /\ resp.body.status = "CREATED")
       => store[resp.id] = resp.body

\* C28 witness: a PATCH with the cart <<p2, p1>> was answered 200 with a
\* CREATED checkout of those lines, in that order, at a later clock value
\* than its creation, while another checkout holds the cart <<p1, p2>>.
C28_Witness ==
  /\ resp.op = "update" /\ resp.code = 200
  /\ resp.body.status = "CREATED"
  /\ resp.body.lines = <<CartLine("p2", 4), CartLine("p1", 2)>>
  /\ resp.body.createdAt < resp.body.updatedAt
  /\ store[resp.id] = resp.body
  /\ \E j \in DOMAIN store : j # resp.id /\ store[j].lines = FreshLines

\* C29 (as claimed): a checkout just created has updatedAt = createdAt; a
\* request that is no create leaves createdAt of every stored checkout as
\* it was, leaves updatedAt as it was unless it is an update, complete or
\* cancel answered 200 for a CREATED checkout, and then sets updatedAt to a
\* value later than the one it had; and after every step createdAt <=
\* updatedAt for every stored checkout.
C29_Timestamps ==
  [][/\ (resp'.op = "create" /\ resp'.code = 201 /\ now' = now)
          => store'[resp'.id].updatedAt = store'[resp'.id].createdAt
     /\ \A id \in DOMAIN store' : store'[id].createdAt <= store'[id].updatedAt
     /\ (resp'.op # "create" /\ now' = now) =>
          \A id \in DOMAIN store :
            /\ store'[id].createdAt = store[id].createdAt
            /\ store'[id].updatedAt # store[id].updatedAt
                 => /\ resp'.op \in {"update", "complete", "cancel"}
                    /\ resp'.code = 200 /\ resp'.id = id
                    /\ store[id].status = "CREATED"
            /\ (resp'.op \in {"update", "complete", "cancel"} /\ resp'.code = 200
                  /\ resp'.id = id /\ store[id].status = "CREATED")
                 => store'[id].updatedAt > store[id].updatedAt]_vars

\* The tools/call requests among the requests an operation has sent.
ToolCallsOf(h) == {i \in DOMAIN hresp[h].posts : hresp[h].posts[i].method = "tools/call"}

\* An initialize answer that gives a session: a result with a session id.
GivesSession(a) == a.kind = "ok" /\ a.session # ""

\* C30: every client operation sends an initialize first, without session
\* and version headers, and at most one tools/call; a tools/call is its
\* second request, sent after its own initialize was answered with a result
\* and a session id, and carries that session id and the protocol version
\* of that result (the requested one when the result names none); and an
\* operation whose initialize failed or gave no session id has returned
\* having sent the initialize alone.
C30_HandshakeFirst ==
  \A h \in Handlers :
    hreq[h] # NoRequest =>
      \A posts \in {hresp[h].posts}, answers \in {hresp[h].answers} :
        /\ Len(posts) <= 2
        /\ Cardinality(ToolCallsOf(h)) <= 1
        /\ Len(posts) >= 1 => posts[1] = [method |-> "initialize", session |-> "", version |-> ""]
        /\ \A i \in ToolCallsOf(h) :
             /\ i = 2
             /\ Len(answers) >= 1
             /\ GivesSession(answers[1])
             /\ posts[i].session = answers[1].session
             /\ posts[i].version
                  = IF answers[1].version = "" THEN PROTOCOL_VERSION ELSE answers[1].version
        /\ (Len(answers) >= 1 /\ ~GivesSession(answers[1]))
             => (Done(h) /\ Len(posts) = 1)
        /\ pc[h] \in {"call", "ran"} => Cardinality(ToolCallsOf(h)) = 1

\* C30 witness: two operations have returned, each having sent a tools/call
\* with the session id its own initialize was answered, the two session ids
\* being different, one with the version its initialize was answered and
\* one, whose answer named none, with the requested version; and the last
\* route to answer got its checkout through the gateway.
C30_Witness ==
  \E h1 \in Handlers, h2 \in Handlers :
    /\ Done(h1) /\ Done(h2)
    /\ Len(hresp[h1].posts) = 2 /\ Len(hresp[h2].posts) = 2
    /\ hresp[h1].posts[2].session = "s_1" /\ hresp[h2].posts[2].session = "s_2"
    /\ hresp[h1].answers[1].session = "s_1" /\ hresp[h2].answers[1].session = "s_2"
    /\ hresp[h1].posts[2].version = "2025-03-26"
    /\ hresp[h2].posts[2].version = PROTOCOL_VERSION /\ hresp[h2].answers[1].version = ""
    /\ resp.route = "mcp" /\ ~resp.fallback /\ resp.posts = 2

\* C31: the initialize of every client operation requests the version
\* 2024-11-05; the version a tools/call carries is the protocolVersion of
\* the result its initialize was answered, whether that is the requested
\* version, an older or a newer one; and it is the requested version in
\* place of the answered one only when the result names no protocolVersion.
C31_VersionNegotiated ==
  \A h \in Handlers :
    hreq[h] # NoRequest =>
      \A posts \in {hresp[h].posts}, answers \in {hresp[h].answers} :
        /\ Len(posts) >= 1 => hresp[h].requested = "2024-11-05"
        /\ \A i \in ToolCallsOf(h) :
             /\ answers[1].version # "" => posts[i].version = answers[1].version
             /\ answers[1].version = "" => posts[i].version = hresp[h].requested
             /\ posts[i].version # answers[1].version => answers[1].version = ""
             /\ posts[i].version # ""

\* C31 witness: two operations have returned after their tools/call; the
\* result of the first's initialize named the older version 2024-10-07 and
\* its tools/call carried that version; the result of the second's named no
\* version and its tools/call carried the requested one.
C31_Witness ==
  \E h1 \in Handlers, h2 \in Handlers :
    /\ Done(h1) /\ Done(h2)
    /\ hresp[h1].requested = "2024-11-05" /\ hresp[h2].requested = "2024-11-05"
    /\ Len(hresp[h1].posts) = 2 /\ Len(hresp[h2].posts) = 2
    /\ hresp[h1].answers[1].version = "2024-10-07"
    /\ hresp[h1].posts[2].version = "2024-10-07"
    /\ hresp[h2].answers[1].version = ""
    /\ hresp[h2].posts[2].version = "2024-11-05"

\* A body the PATCH route refuses: no JSON, or lines missing, no array or
\* an empty array.
BadBody(body) ==
  body.kind \in {"badjson", "missing", "nonarray"} \/ (body.kind = "array" /\ body.lines = <<>>)

\* C32: for every id, stored or not, every body and every clock value, the
\* PATCH route answers 400 and leaves the store as it was when the body is
\* no JSON or its lines is missing, no array or empty; with a non-empty
\* line list it answers 404 and leaves the store as it was when the id is
\* not stored and 200 when it is, with the stored checkout and an unchanged
\* store when that checkout is COMPLETED or CANCELED. And a PATCH just
\* answered answered 400, 404 or 200, 404 for an id not stored and 200 with
\* the stored checkout.
C32_PatchOutcomes ==
  /\ \A id \in ReqIds, body \in Bodies, t \in Times :
       \A r \in {PatchCheckout(store, id, body, t)} :
         /\ BadBody(body) =>
              /\ r.code = 400 /\ r.store = store
              /\ r.body = IF body.kind = "badjson" THEN ErrJson ELSE ErrLines
         /\ (~BadBody(body) /\ id \notin DOMAIN store) =>
              (r.code = 404 /\ r.store = store /\ r.body = ErrNotFound)
         /\ (~BadBody(body) /\ id \in DOMAIN store) =>
              /\ r.code = 200
              /\ r.body.id = store[id].id
              /\ r.store[id] = r.body
              /\ Terminal(store[id]) => (r.store = store /\ r.body = store[id])
              /\ ~Terminal(store[id]) => r.body.lines = body.lines
  /\ resp.op = "update" =>
       /\ resp.code \in {200, 400, 404}
       /\ resp.code = 404 => resp.id \notin DOMAIN store
       /\ resp.code = 200 => store[resp.id] = resp.body

\* C32 witness: a PATCH whose lines the route refuses, for an id that is
\* not stored, was answered 400, not 404, while the store held a checkout.
C32_Witness ==
  /\ resp.op = "update" /\ resp.code = 400
  /\ resp.body = ErrLines
  /\ resp.id \notin DOMAIN store
  /\ store # <<>>

\* The body of the complete route's 404 for a checkout that is not in the
\* store.
NotInStore == [error |-> "not found", hint |-> <<HintMissing>>]

\* C33: for every id a request can name and every clock value, the complete
\* route answers 404 exactly when the id is not stored, and 200 otherwise;
\* its 404 has the hint that the checkout is not in the store and leaves
\* the store as it was, and a get after it answers 404 too; a get after its
\* 200 answers the checkout it answered. And every 404 a complete has just
\* answered is for an id that is not stored and has that hint, never the
\* one that the checkout exists with some status.
C33_CompleteNotFound ==
  /\ \A id \in ReqIds, t \in Times :
       \A r \in {PostComplete(store, id, t)} :
         /\ r.code \in {200, 404}
         /\ r.code = 404 <=> id \notin DOMAIN store
         /\ r.code = 404 =>
              /\ r.body = NotInStore
              /\ r.store = store
              /\ GetCheckout(r.store, id).code = 404
         /\ r.code = 200 => GetCheckout(r.store, id).body = r.body
  /\ \A t \in Times : PostComplete(store, "", t).code = 400
  /\ (resp.route = "rest" /\ resp.op = "complete" /\ resp.code = 404) =>
       /\ resp.id \notin DOMAIN store
       /\ resp.body = NotInStore
  /\ (resp.route = "rest" /\ resp.op = "complete") => resp.code \in {200, 404}

\* C33 witness: a complete of an id that is not stored was answered 404
\* with the hint, while the store holds a COMPLETED and a CANCELED checkout.
C33_Witness ==
  /\ resp.route = "rest" /\ resp.op = "complete" /\ resp.code = 404
  /\ resp.body.hint = <<HintMissing>>
  /\ resp.id \notin DOMAIN store
  /\ \E i \in DOMAIN store, j \in DOMAIN store :
       store[i].status = "COMPLETED" /\ store[j].status = "CANCELED"

\* The checkouts stored before a step that the step left as they were,
\* except the one under id x.
OthersKept(x) == \A id \in DOMAIN store \ {x} : id \in DOMAIN store' /\ store'[id] = store[id]

\* C34 (as claimed): a request removes no checkout; a get leaves the store
\* as it was; an update, complete or cancel of id X leaves the set of stored
\* ids and every checkout stored under another id as they were; a create
\* answered 201 adds exactly one id to the store and leaves every checkout
\* that was stored as it was, and a refused create leaves the store as it
\* was.
C34_PerIdFrame ==
  [][now' = now =>
       /\ DOMAIN store \subseteq DOMAIN store'
       /\ resp'.op = "get" => store' = store
       /\ resp'.op \in {"update", "complete", "cancel"} =>
            /\ DOMAIN store' = DOMAIN store
            /\ OthersKept(resp'.id)
       /\ (resp'.op = "create" /\ resp'.code = 201) =>
            /\ Cardinality(DOMAIN store' \ DOMAIN store) = 1
            /\ resp'.id \in DOMAIN store' \ DOMAIN store
            /\ OthersKept("")
       /\ (resp'.op = "create" /\ resp'.code # 201) => store' = store]_vars

====
